---------------------------- MODULE Spec2Model ----------------------------
(***************************************************************************)
(* Model of the yxa keyboard firmware customisation layer:                 *)
(*   - the sideband publisher of keymaps/miryoku/yxa_features.c            *)
(*     (batching of key events, change publication, host requests),        *)
(*   - the keymaps and tap-dance handlers of keymaps/miryoku/keymap.c,     *)
(*     firmware/keymap.c and bak/.../keymap.c,                             *)
(*   - the tap-hold arbiter and layer engine that drive them.  The arbiter *)
(*     and the layer walk are not part of the sources; they are modelled   *)
(*     from sections 4.1 and 4.2 of the specification.                     *)
(***************************************************************************)
EXTENDS Integers, Sequences, FiniteSets, TLC

(***************************************************************************)
(* Bounds of the model.                                                    *)
(***************************************************************************)
\* Time that passes in one step of the clock (ms).
TickMs == 100
\* Number of key events the matrix scan can see between two steps of the clock.
MaxBurst == 2
\* Tap counts of a tap dance are told apart up to MaxTaps; a higher count is
\* counted as MaxTaps.
MaxTaps == 3

(***************************************************************************)
(* Program constants.                                                      *)
(***************************************************************************)
\* yxa_features.c: message types of the raw HID protocol
MSG_REQUEST_STATE   == 0
MSG_LAYER_STATE     == 1
MSG_KEY_PRESS       == 2
MSG_KEY_RELEASE     == 3
MSG_CAPS_WORD_STATE == 4
MSG_MODIFIER_STATE  == 5
MSG_HEARTBEAT       == 6
MSG_FULL_STATE      == 7
MSG_KEY_BATCH       == 8
RAW_EPSIZE          == 32
MAX_BATCH_EVENTS    == 8
BATCH_TIMEOUT_MS    == 2
\* initial value of last_broadcast_layer
NO_LAYER_BROADCAST  == 255

\* keymaps/miryoku/config.h
TAPPING_TERM   == 200
QUICK_TAP_TERM == 120
\* defined in config.h and used by no source file
TAPPING_TERM_MOD_TAP == 220
TAPPING_TERM_LAYER   == 200

\* keymaps/miryoku/keymap.c: enum miryoku_layers
U_BASE   == 0
U_EXTRA  == 1
U_TAP    == 2
U_BUTTON == 3
U_NAV    == 4
U_MOUSE  == 5
U_MEDIA  == 6
U_NUM    == 7
U_SYM    == 8
U_FUN    == 9

\* keymaps/miryoku/keymap.c: tap dance enum
U_TD_BOOT     == 0
U_TD_U_BASE   == 1
U_TD_U_EXTRA  == 2
U_TD_U_TAP    == 3
U_TD_U_BUTTON == 4
U_TD_U_NAV    == 5
U_TD_U_MOUSE  == 6
U_TD_U_MEDIA  == 7
U_TD_U_NUM    == 8
U_TD_U_SYM    == 9
U_TD_U_FUN    == 10

\* USB modifier bits (MOD_BIT of the modifier keycodes)
MOD_LCTL == 1
MOD_LSFT == 2
MOD_LALT == 4
MOD_LGUI == 8
MOD_RCTL == 16
MOD_RSFT == 32
MOD_RALT == 64
MOD_RGUI == 128

\* Width of layer_state_t used by the model: layers 0..MAX_LAYER-1.
MAX_LAYER == 10
\* Bound of the overlap log of a Pending key (specification, section 3).
MAX_OVERLAPS == 16

(***************************************************************************)
(* Bit arithmetic on small unsigned integers.                              *)
(***************************************************************************)
Pow2(i) == 2 ^ i
BitSet(n, i) == (n \div Pow2(i)) % 2 = 1
RECURSIVE BitOrN(_, _, _)
BitOrN(a, b, w) ==
  IF w = 0 THEN 0
  ELSE (IF a % 2 = 1 \/ b % 2 = 1 THEN 1 ELSE 0)
       + 2 * BitOrN(a \div 2, b \div 2, w - 1)
RECURSIVE BitAndNotN(_, _, _)
BitAndNotN(a, b, w) ==
  IF w = 0 THEN 0
  ELSE (IF a % 2 = 1 /\ b % 2 = 0 THEN 1 ELSE 0)
       + 2 * BitAndNotN(a \div 2, b \div 2, w - 1)
\* a | b and a & ~b on 10-bit operands (layers 0..9, modifier bits 0..7)
BitOr(a, b)     == BitOrN(a, b, 10)
BitAndNot(a, b) == BitAndNotN(a, b, 10)

\* get_highest_layer(state): index of the highest set bit, 0 when none is set
RECURSIVE biton(_)
biton(n) == IF n <= 1 THEN 0 ELSE 1 + biton(n \div 2)
get_highest_layer(state) == biton(state)

(***************************************************************************)
(* Keycodes: the tagged actions a keymap entry can hold.                   *)
(***************************************************************************)
KC(kc)        == [kind |-> "Plain",       kc |-> kc,        arg |-> 0]
MT(mod, kc)   == [kind |-> "ModTap",      kc |-> kc,        arg |-> mod]
LT(layer, kc) == [kind |-> "LayerTap",    kc |-> kc,        arg |-> layer]
MO(layer)     == [kind |-> "LayerMomentary", kc |-> "",     arg |-> layer]
TD(id)        == [kind |-> "TapDance",    kc |-> "",        arg |-> id]
KC_TRNS       == [kind |-> "Transparent", kc |-> "",        arg |-> 0]
KC_NO         == [kind |-> "Blocked",     kc |-> "",        arg |-> 0]
QK_BOOT       == [kind |-> "Boot",        kc |-> "QK_BOOT", arg |-> 0]
CW_TOGG       == [kind |-> "CapsWord",    kc |-> "CW_TOGG", arg |-> 0]

\* keymaps[][MATRIX_ROWS][MATRIX_COLS] of the yxa miryoku keymap, one row of 36 layout positions per layer
keymaps ==
  <<
    \* [U_BASE]  (keymap.c:90)
    << KC("KC_Q"), KC("KC_W"), KC("KC_F"), KC("KC_P"), KC("KC_B"), KC("KC_J"), KC("KC_L"), KC("KC_U"), KC("KC_Y"), KC("KC_QUOT"),
       MT(MOD_LGUI, "KC_A"), MT(MOD_LALT, "KC_R"), MT(MOD_LCTL, "KC_S"), MT(MOD_LSFT, "KC_T"), KC("KC_G"), KC("KC_M"), MT(MOD_LSFT, "KC_N"), MT(MOD_LCTL, "KC_E"), MT(MOD_LALT, "KC_I"), MT(MOD_LGUI, "KC_O"),
       LT(U_BUTTON, "KC_Z"), MT(MOD_RALT, "KC_X"), KC("KC_C"), KC("KC_D"), KC("KC_V"), KC("KC_K"), KC("KC_H"), KC("KC_COMM"), MT(MOD_RALT, "KC_DOT"), LT(U_BUTTON, "KC_SLSH"),
       LT(U_MEDIA, "KC_ESC"), LT(U_NAV, "KC_SPC"), LT(U_MOUSE, "KC_TAB"), LT(U_SYM, "KC_ENT"), LT(U_NUM, "KC_BSPC"), LT(U_FUN, "KC_DEL") >>,
    \* [U_EXTRA]  (keymap.c:98)
    << KC("KC_Q"), KC("KC_W"), KC("KC_E"), KC("KC_R"), KC("KC_T"), KC("KC_Y"), KC("KC_U"), KC("KC_I"), KC("KC_O"), KC("KC_P"),
       MT(MOD_LGUI, "KC_A"), MT(MOD_LALT, "KC_S"), MT(MOD_LCTL, "KC_D"), MT(MOD_LSFT, "KC_F"), KC("KC_G"), KC("KC_H"), MT(MOD_LSFT, "KC_J"), MT(MOD_LCTL, "KC_K"), MT(MOD_LALT, "KC_L"), MT(MOD_LGUI, "KC_QUOT"),
       LT(U_BUTTON, "KC_Z"), MT(MOD_RALT, "KC_X"), KC("KC_C"), KC("KC_V"), KC("KC_B"), KC("KC_N"), KC("KC_M"), KC("KC_COMM"), MT(MOD_RALT, "KC_DOT"), LT(U_BUTTON, "KC_SLSH"),
       LT(U_MEDIA, "KC_ESC"), LT(U_NAV, "KC_SPC"), LT(U_MOUSE, "KC_TAB"), LT(U_SYM, "KC_ENT"), LT(U_NUM, "KC_BSPC"), LT(U_FUN, "KC_DEL") >>,
    \* [U_TAP]  (keymap.c:106)
    << KC("KC_Q"), KC("KC_W"), KC("KC_F"), KC("KC_P"), KC("KC_B"), KC("KC_J"), KC("KC_L"), KC("KC_U"), KC("KC_Y"), KC("KC_QUOT"),
       KC("KC_A"), KC("KC_R"), KC("KC_S"), KC("KC_T"), KC("KC_G"), KC("KC_M"), KC("KC_N"), KC("KC_E"), KC("KC_I"), KC("KC_O"),
       KC("KC_Z"), KC("KC_X"), KC("KC_C"), KC("KC_D"), KC("KC_V"), KC("KC_K"), KC("KC_H"), KC("KC_COMM"), KC("KC_DOT"), KC("KC_SLSH"),
       LT(U_MEDIA, "KC_ESC"), LT(U_NAV, "KC_SPC"), LT(U_MOUSE, "KC_TAB"), LT(U_SYM, "KC_ENT"), LT(U_NUM, "KC_BSPC"), LT(U_FUN, "KC_DEL") >>,
    \* [U_BUTTON]  (keymap.c:114)
    << KC("KC_UNDO"), KC("S(KC_DEL)"), KC("C(KC_INS)"), KC("S(KC_INS)"), KC("KC_AGIN"), KC("KC_AGIN"), KC("S(KC_INS)"), KC("C(KC_INS)"), KC("S(KC_DEL)"), KC("KC_UNDO"),
       KC("KC_LGUI"), KC("KC_LALT"), KC("KC_LCTL"), KC("KC_LSFT"), KC_NO, KC_NO, KC("KC_LSFT"), KC("KC_LCTL"), KC("KC_LALT"), KC("KC_LGUI"),
       KC("KC_UNDO"), KC("S(KC_DEL)"), KC("C(KC_INS)"), KC("S(KC_INS)"), KC("KC_AGIN"), KC("KC_AGIN"), KC("S(KC_INS)"), KC("C(KC_INS)"), KC("S(KC_DEL)"), KC("KC_UNDO"),
       KC("KC_BTN3"), KC("KC_BTN1"), KC("KC_BTN2"), KC("KC_BTN2"), KC("KC_BTN1"), KC("KC_BTN3") >>,
    \* [U_NAV]  (keymap.c:122)
    << TD(U_TD_BOOT), TD(U_TD_U_TAP), TD(U_TD_U_EXTRA), TD(U_TD_U_BASE), KC_NO, KC("KC_AGIN"), KC("S(KC_INS)"), KC("C(KC_INS)"), KC("S(KC_DEL)"), KC("KC_UNDO"),
       KC("KC_LGUI"), KC("KC_LALT"), KC("KC_LCTL"), KC("KC_LSFT"), KC_NO, CW_TOGG, KC("KC_LEFT"), KC("KC_DOWN"), KC("KC_UP"), KC("KC_RGHT"),
       KC_NO, KC("KC_ALGR"), TD(U_TD_U_NUM), TD(U_TD_U_NAV), KC_NO, KC("KC_INS"), KC("KC_HOME"), KC("KC_PGDN"), KC("KC_PGUP"), KC("KC_END"),
       KC_NO, KC_NO, KC_NO, KC("KC_ENT"), KC("KC_BSPC"), KC("KC_DEL") >>,
    \* [U_MOUSE]  (keymap.c:130)
    << TD(U_TD_BOOT), TD(U_TD_U_TAP), TD(U_TD_U_EXTRA), TD(U_TD_U_BASE), KC_NO, KC("KC_AGIN"), KC("S(KC_INS)"), KC("C(KC_INS)"), KC("S(KC_DEL)"), KC("KC_UNDO"),
       KC("KC_LGUI"), KC("KC_LALT"), KC("KC_LCTL"), KC("KC_LSFT"), KC_NO, KC_NO, KC("KC_MS_L"), KC("KC_MS_D"), KC("KC_MS_U"), KC("KC_MS_R"),
       KC_NO, KC("KC_ALGR"), TD(U_TD_U_SYM), TD(U_TD_U_MOUSE), KC_NO, KC_NO, KC("KC_WH_L"), KC("KC_WH_D"), KC("KC_WH_U"), KC("KC_WH_R"),
       KC_NO, KC_NO, KC_NO, KC("KC_BTN2"), KC("KC_BTN1"), KC("KC_BTN3") >>,
    \* [U_MEDIA]  (keymap.c:138)
    << TD(U_TD_BOOT), TD(U_TD_U_TAP), TD(U_TD_U_EXTRA), TD(U_TD_U_BASE), KC_NO, KC("RGB_TOG"), KC("RGB_MOD"), KC("RGB_HUI"), KC("RGB_SAI"), KC("RGB_VAI"),
       KC("KC_LGUI"), KC("KC_LALT"), KC("KC_LCTL"), KC("KC_LSFT"), KC_NO, KC_NO, KC("KC_MPRV"), KC("KC_VOLD"), KC("KC_VOLU"), KC("KC_MNXT"),
       KC_NO, KC("KC_ALGR"), TD(U_TD_U_FUN), TD(U_TD_U_MEDIA), KC_NO, KC("OU_AUTO"), KC_NO, KC_NO, KC_NO, KC_NO,
       KC_NO, KC_NO, KC_NO, KC("KC_MSTP"), KC("KC_MPLY"), KC("KC_MUTE") >>,
    \* [U_NUM]  (keymap.c:146)
    << KC("KC_LBRC"), KC("KC_7"), KC("KC_8"), KC("KC_9"), KC("KC_RBRC"), KC_NO, TD(U_TD_U_BASE), TD(U_TD_U_EXTRA), TD(U_TD_U_TAP), TD(U_TD_BOOT),
       KC("KC_SCLN"), KC("KC_4"), KC("KC_5"), KC("KC_6"), KC("KC_EQL"), KC_NO, KC("KC_LSFT"), KC("KC_LCTL"), KC("KC_LALT"), KC("KC_LGUI"),
       KC("KC_GRV"), KC("KC_1"), KC("KC_2"), KC("KC_3"), KC("KC_BSLS"), KC_NO, TD(U_TD_U_NUM), TD(U_TD_U_NAV), KC("KC_ALGR"), KC_NO,
       KC("KC_DOT"), KC("KC_0"), KC("KC_MINS"), KC_NO, KC_NO, KC_NO >>,
    \* [U_SYM]  (keymap.c:154)
    << KC("KC_LCBR"), KC("KC_AMPR"), KC("KC_ASTR"), KC("KC_LPRN"), KC("KC_RCBR"), KC_NO, TD(U_TD_U_BASE), TD(U_TD_U_EXTRA), TD(U_TD_U_TAP), TD(U_TD_BOOT),
       KC("KC_COLN"), KC("KC_DLR"), KC("KC_PERC"), KC("KC_CIRC"), KC("KC_PLUS"), KC_NO, KC("KC_LSFT"), KC("KC_LCTL"), KC("KC_LALT"), KC("KC_LGUI"),
       KC("KC_TILD"), KC("KC_EXLM"), KC("KC_AT"), KC("KC_HASH"), KC("KC_PIPE"), KC_NO, TD(U_TD_U_SYM), TD(U_TD_U_MOUSE), KC("KC_ALGR"), KC_NO,
       KC("KC_LPRN"), KC("KC_RPRN"), KC("KC_UNDS"), KC_NO, KC_NO, KC_NO >>,
    \* [U_FUN]  (keymap.c:162)
    << KC("KC_F12"), KC("KC_F7"), KC("KC_F8"), KC("KC_F9"), KC("KC_PSCR"), KC_NO, TD(U_TD_U_BASE), TD(U_TD_U_EXTRA), TD(U_TD_U_TAP), TD(U_TD_BOOT),
       KC("KC_F11"), KC("KC_F4"), KC("KC_F5"), KC("KC_F6"), KC("KC_SCRL"), KC_NO, KC("KC_LSFT"), KC("KC_LCTL"), KC("KC_LALT"), KC("KC_LGUI"),
       KC("KC_F10"), KC("KC_F1"), KC("KC_F2"), KC("KC_F3"), KC("KC_PAUS"), KC_NO, TD(U_TD_U_FUN), TD(U_TD_U_MEDIA), KC("KC_ALGR"), KC_NO,
       KC("KC_APP"), KC("KC_SPC"), KC("KC_TAB"), KC_NO, KC_NO, KC_NO >>
  >>

\* keymaps of firmware/keymap.c (layers _LAYER_0.._LAYER_3)
keymaps_szr ==
  <<
    \* [_LAYER_0]  (keymap.c:44)
    << KC("KC_Q"), KC("KC_W"), KC("KC_E"), KC("KC_R"), KC("KC_T"), KC("KC_Y"), KC("KC_U"), KC("KC_I"), KC("KC_O"), KC("KC_P"),
       KC("KC_A"), KC("KC_S"), KC("KC_D"), KC("KC_F"), KC("KC_G"), KC("KC_H"), KC("KC_J"), KC("KC_K"), KC("KC_L"), KC("KC_SCLN"),
       MT(MOD_LSFT, "KC_Z"), KC("KC_X"), KC("KC_C"), KC("KC_V"), KC("KC_B"), KC("KC_N"), KC("KC_M"), KC("KC_COMM"), KC("KC_DOT"), MT(MOD_RSFT, "KC_SLSH"),
       MT(MOD_LALT, "KC_DEL"), MT(MOD_LGUI, "KC_TAB"), MT(MOD_LCTL, "KC_ESC"), KC("KC_SPC"), LT(1, "KC_ENT"), LT(2, "KC_BSPC") >>,
    \* [_LAYER_1]  (keymap.c:51)
    << KC("KC_1"), KC("KC_2"), KC("KC_3"), KC("KC_4"), KC("KC_5"), KC("KC_6"), KC("KC_7"), KC("KC_8"), KC("KC_9"), KC("KC_0"),
       KC("KC_GRV"), KC("KC_HOME"), KC("KC_PGDN"), KC("KC_PGUP"), KC("KC_END"), KC("KC_LEFT"), KC("KC_DOWN"), KC("KC_UP"), KC("KC_RGHT"), KC("KC_QUOT"),
       KC("KC_LSFT"), KC("KC_BRID"), KC("KC_BRIU"), KC_NO, KC_NO, KC("KC_MINS"), KC("KC_EQL"), KC("KC_LBRC"), KC("KC_RBRC"), MT(MOD_RSFT, "KC_BSLS"),
       KC_NO, KC("G(KC_TAB)"), KC("C(KC_ESC)"), KC_NO, KC_TRNS, MO(3) >>,
    \* [_LAYER_2]  (keymap.c:58)
    << KC("KC_F1"), KC("KC_F2"), KC("KC_F3"), KC("KC_F4"), KC("KC_F5"), KC("KC_F6"), KC("KC_F7"), KC("KC_F8"), KC("KC_F9"), KC("KC_F10"),
       KC("KC_F11"), KC("KC_F12"), KC("KC_MPRV"), KC("KC_MPLY"), KC("KC_MNXT"), KC("MS_LEFT"), KC("MS_DOWN"), KC("MS_UP"), KC("MS_RGHT"), KC("KC_PSCR"),
       KC("KC_MUTE"), KC("KC_VOLD"), KC("KC_VOLU"), KC("MS_WHLD"), KC("MS_WHLU"), KC("MS_BTN1"), KC("MS_BTN2"), KC("MS_BTN3"), KC("MS_BTN4"), KC("MS_BTN5"),
       KC("MS_ACL0"), KC("MS_ACL1"), KC("MS_ACL2"), KC_NO, MO(3), KC_TRNS >>,
    \* [_LAYER_3]  (keymap.c:65)
    << QK_BOOT, KC_NO, KC_NO, KC_NO, KC_NO, KC_NO, KC_NO, KC_NO, KC_NO, KC_NO,
       KC("RM_TOGG"), KC_NO, KC_NO, KC_NO, KC_NO, KC_NO, KC_NO, KC_NO, KC_NO, KC_NO,
       KC("RM_NEXT"), KC_NO, KC_NO, KC_NO, KC_NO, KC_NO, KC_NO, KC_NO, KC_NO, KC_NO,
       KC_NO, KC_NO, KC_NO, KC_NO, KC_TRNS, KC_TRNS >>
  >>

\* keymaps of bak/qmk/kbd/szr35/keymaps/miryoku/keymap.c (U_BASE=0, U_NAV=1, U_MOUSE=2, U_MEDIA=3, U_NUM=4, U_SYM=5, U_FUN=6, U_BUTTON=7, layer 8 transparent)
keymaps_bak ==
  <<
    \* [U_BASE]  (keymap.c:33)
    << KC("KC_Q"), KC("KC_W"), KC("KC_F"), KC("KC_P"), KC("KC_B"), KC("KC_J"), KC("KC_L"), KC("KC_U"), KC("KC_Y"), KC("KC_QUOT"),
       MT(MOD_LGUI, "KC_A"), MT(MOD_LALT, "KC_R"), MT(MOD_LCTL, "KC_S"), MT(MOD_LSFT, "KC_T"), KC("KC_G"), KC("KC_M"), MT(MOD_LSFT, "KC_N"), MT(MOD_LCTL, "KC_E"), MT(MOD_LALT, "KC_I"), MT(MOD_LGUI, "KC_O"),
       LT(7, "KC_Z"), MT(MOD_RALT, "KC_X"), KC("KC_C"), KC("KC_D"), KC("KC_V"), KC("KC_K"), KC("KC_H"), KC("KC_COMM"), MT(MOD_RALT, "KC_DOT"), LT(7, "KC_SLSH"),
       LT(3, "KC_ESC"), LT(1, "KC_SPC"), LT(2, "KC_TAB"), LT(5, "KC_ENT"), LT(4, "KC_BSPC"), LT(6, "KC_DEL") >>,
    \* [U_NAV]  (keymap.c:41)
    << QK_BOOT, KC_NO, KC_NO, KC_NO, KC_NO, KC("KC_AGIN"), KC("KC_PSTE"), KC("KC_COPY"), KC("KC_CUT"), KC("KC_UNDO"),
       KC("KC_LGUI"), KC("KC_LALT"), KC("KC_LCTL"), KC("KC_LSFT"), KC_NO, CW_TOGG, KC("KC_LEFT"), KC("KC_DOWN"), KC("KC_UP"), KC("KC_RGHT"),
       KC_NO, KC("KC_RALT"), KC_NO, KC_NO, KC_NO, KC("KC_INS"), KC("KC_HOME"), KC("KC_PGDN"), KC("KC_PGUP"), KC("KC_END"),
       KC_NO, KC_NO, KC_NO, KC("KC_ENT"), KC("KC_BSPC"), KC("KC_DEL") >>,
    \* [U_MOUSE]  (keymap.c:49)
    << QK_BOOT, KC_NO, KC_NO, KC_NO, KC_NO, KC("KC_AGIN"), KC("KC_PSTE"), KC("KC_COPY"), KC("KC_CUT"), KC("KC_UNDO"),
       KC("KC_LGUI"), KC("KC_LALT"), KC("KC_LCTL"), KC("KC_LSFT"), KC_NO, KC_NO, KC("KC_MS_L"), KC("KC_MS_D"), KC("KC_MS_U"), KC("KC_MS_R"),
       KC_NO, KC("KC_RALT"), KC_NO, KC_NO, KC_NO, KC_NO, KC("KC_WH_L"), KC("KC_WH_D"), KC("KC_WH_U"), KC("KC_WH_R"),
       KC_NO, KC_NO, KC_NO, KC("KC_BTN2"), KC("KC_BTN1"), KC("KC_BTN3") >>,
    \* [U_MEDIA]  (keymap.c:57)
    << QK_BOOT, KC_NO, KC_NO, KC_NO, KC_NO, KC("RGB_TOG"), KC("RGB_MOD"), KC("RGB_HUI"), KC("RGB_SAI"), KC("RGB_VAI"),
       KC("KC_LGUI"), KC("KC_LALT"), KC("KC_LCTL"), KC("KC_LSFT"), KC_NO, KC_NO, KC("KC_MPRV"), KC("KC_VOLD"), KC("KC_VOLU"), KC("KC_MNXT"),
       KC_NO, KC("KC_RALT"), KC_NO, KC_NO, KC_NO, KC("OU_AUTO"), KC_NO, KC_NO, KC_NO, KC_NO,
       KC_NO, KC_NO, KC_NO, KC("KC_MSTP"), KC("KC_MPLY"), KC("KC_MUTE") >>,
    \* [U_NUM]  (keymap.c:65)
    << KC("KC_LBRC"), KC("KC_7"), KC("KC_8"), KC("KC_9"), KC("KC_RBRC"), KC_NO, KC_NO, KC_NO, KC_NO, QK_BOOT,
       KC("KC_SCLN"), KC("KC_4"), KC("KC_5"), KC("KC_6"), KC("KC_EQL"), KC_NO, KC("KC_LSFT"), KC("KC_LCTL"), KC("KC_LALT"), KC("KC_LGUI"),
       KC("KC_GRV"), KC("KC_1"), KC("KC_2"), KC("KC_3"), KC("KC_BSLS"), KC_NO, KC_NO, KC_NO, KC("KC_RALT"), KC_NO,
       KC("KC_DOT"), KC("KC_0"), KC("KC_MINS"), KC_NO, KC_NO, KC_NO >>,
    \* [U_SYM]  (keymap.c:73)
    << KC("KC_LCBR"), KC("KC_AMPR"), KC("KC_ASTR"), KC("KC_LPRN"), KC("KC_RCBR"), KC_NO, KC_NO, KC_NO, KC_NO, QK_BOOT,
       KC("KC_COLN"), KC("KC_DLR"), KC("KC_PERC"), KC("KC_CIRC"), KC("KC_PLUS"), KC_NO, KC("KC_LSFT"), KC("KC_LCTL"), KC("KC_LALT"), KC("KC_LGUI"),
       KC("KC_TILD"), KC("KC_EXLM"), KC("KC_AT"), KC("KC_HASH"), KC("KC_PIPE"), KC_NO, KC_NO, KC_NO, KC("KC_RALT"), KC_NO,
       KC("KC_LPRN"), KC("KC_RPRN"), KC("KC_UNDS"), KC_NO, KC_NO, KC_NO >>,
    \* [U_FUN]  (keymap.c:81)
    << KC("KC_F12"), KC("KC_F7"), KC("KC_F8"), KC("KC_F9"), KC("KC_PSCR"), KC_NO, KC_NO, KC_NO, KC_NO, QK_BOOT,
       KC("KC_F11"), KC("KC_F4"), KC("KC_F5"), KC("KC_F6"), KC("KC_SCRL"), KC_NO, KC("KC_LSFT"), KC("KC_LCTL"), KC("KC_LALT"), KC("KC_LGUI"),
       KC("KC_F10"), KC("KC_F1"), KC("KC_F2"), KC("KC_F3"), KC("KC_PAUS"), KC_NO, KC_NO, KC_NO, KC("KC_RALT"), KC_NO,
       KC("KC_APP"), KC("KC_SPC"), KC("KC_TAB"), KC_NO, KC_NO, KC_NO >>,
    \* [U_BUTTON]  (keymap.c:89)
    << KC("KC_UNDO"), KC("KC_CUT"), KC("KC_COPY"), KC("KC_PSTE"), KC("KC_AGIN"), KC("KC_AGIN"), KC("KC_PSTE"), KC("KC_COPY"), KC("KC_CUT"), KC("KC_UNDO"),
       KC("KC_LGUI"), KC("KC_LALT"), KC("KC_LCTL"), KC("KC_LSFT"), KC_NO, KC_NO, KC("KC_LSFT"), KC("KC_LCTL"), KC("KC_LALT"), KC("KC_LGUI"),
       KC("KC_UNDO"), KC("KC_CUT"), KC("KC_COPY"), KC("KC_PSTE"), KC("KC_AGIN"), KC("KC_AGIN"), KC("KC_PSTE"), KC("KC_COPY"), KC("KC_CUT"), KC("KC_UNDO"),
       KC("KC_BTN3"), KC("KC_BTN1"), KC("KC_BTN2"), KC("KC_BTN2"), KC("KC_BTN1"), KC("KC_BTN3") >>,
    \* [8]  (keymap.c:97)
    << KC_TRNS, KC_TRNS, KC_TRNS, KC_TRNS, KC_TRNS, KC_TRNS, KC_TRNS, KC_TRNS, KC_TRNS, KC_TRNS,
       KC_TRNS, KC_TRNS, KC_TRNS, KC_TRNS, KC_TRNS, KC_TRNS, KC_TRNS, KC_TRNS, KC_TRNS, KC_TRNS,
       KC_TRNS, KC_TRNS, KC_TRNS, KC_TRNS, KC_TRNS, KC_TRNS, KC_TRNS, KC_TRNS, KC_TRNS, KC_TRNS,
       KC_TRNS, KC_TRNS, KC_TRNS, KC_TRNS, KC_TRNS, KC_TRNS >>
  >>

(***************************************************************************)
(* Layout positions.  A keymap row lists the 36 keys of LAYOUT_split_3x5_3 *)
(* in order: three rows of ten keys (five per half) and six thumb keys.    *)
(* The matrix is split: each half has the columns 0 .. 4, the left half    *)
(* the rows 0 .. 3 and the right half the rows 4 .. 7, thumbs on the last  *)
(* row of their half.  Column 0 is the pinky column of the left half and   *)
(* the inner column of the right half (LED index mapping of                *)
(* yxa_features.c; VIAL_UNLOCK_COMBO_ROWS {0, 4} and _COLS {4, 0} name the *)
(* two inner keys of the top row).  The left thumbs are on the columns     *)
(* 2 .. 4, the right thumbs on the columns 0 .. 2.                         *)
(***************************************************************************)
Positions == 0 .. 35
KeyRow(p) ==
  IF p < 30 THEN (IF p % 10 < 5 THEN p \div 10 ELSE 4 + (p \div 10))
  ELSE (IF p < 33 THEN 3 ELSE 7)
KeyCol(p) ==
  IF p < 30 THEN (IF p % 10 < 5 THEN p % 10 ELSE (p % 10) - 5)
  ELSE (IF p < 33 THEN p - 28 ELSE p - 33)
\* The split half a key is on: "L" or "R".
Hand(p) ==
  IF p < 30 THEN (IF p % 10 < 5 THEN "L" ELSE "R")
  ELSE (IF p < 33 THEN "L" ELSE "R")

\* The keys some specification of this module presses.
ModelKeys == {0, 2, 13, 14, 15, 23, 31, 34, 35}

VARIABLES
  build,                 \* which keymap is compiled: "yxa", "szr" or "bak"
  cfg,                   \* tap-hold options of the build
  down,                  \* physical keys currently down
  burst,                 \* key events since the clock last advanced
  ks,                    \* per-key arbitration state
  age,                   \* per key: ms since its press (saturating)
  relAge,                \* per key: ms since its release (saturating)
  pend,                  \* the Pending dual-role key, or NoKey
  buf,                   \* observed_overlaps of the Pending key
  td,                    \* the tap dance in progress
  layer_state,           \* momentary layer mask
  default_layer_state,   \* default layer mask
  mods,                  \* held USB modifier bits
  oneshot_mods,          \* one-shot modifier bits
  caps_word,             \* caps-word flag
  boot,                  \* "none", or what called reset_keyboard()
  hid,                   \* the reports emitted by the last step, in order
  danced,                \* the tap dances finished by the last step, in order
  last_broadcast_layer,  \* yxa_features.c statics
  last_caps_word_state,
  last_modifier_state,
  event_batch,
  batch_count,
  batch_elapsed,         \* timer_elapsed(last_batch_time), saturating
  batch_wait,            \* history: ms since the oldest pending event was added
  sent,                  \* the frames handed to raw_hid_send by the last step
  ok,                    \* per frame of sent: the endpoint took it
  received,              \* the host frame handled by the last step, or NoFrame
  link,                  \* "reliable", or "lossy": the endpoint can be busy
  host,                  \* the host's view of layer, caps word and modifiers
  led                    \* the LED buffer written by rgb_matrix_set_color

vars ==
  << build, cfg, down, burst, ks, age, relAge, pend, buf, td, layer_state,
     default_layer_state, mods, oneshot_mods, caps_word, boot, hid, danced,
     last_broadcast_layer, last_caps_word_state, last_modifier_state,
     event_batch, batch_count, batch_elapsed, batch_wait, sent, ok, received,
     link, host, led >>

(***************************************************************************)
(* The sideband publisher (yxa_features.c).  Its operators work on a       *)
(* record p of the publisher's statics and of the keyboard state it reads. *)
(***************************************************************************)
ZeroFrame == [i \in 0 .. RAW_EPSIZE - 1 |-> 0]

\* raw_hid_send(data, RAW_EPSIZE): the frame is handed to the endpoint, which
\* takes it unless it is busy for frames of that tag in this loop iteration.
\* The call returns nothing to its caller.
raw_hid_send(p, data) ==
  [p EXCEPT !.sent = Append(@, data), !.ok = Append(@, data[0] \notin p.busy)]

\* A faulty get_effective_layer: the default layer is left out, as in the
\* publishers that read get_highest_layer(layer_state).
get_momentary_layer(p) == get_highest_layer(p.layer_state)

get_effective_layer(p) ==
  LET effective == BitOr(p.layer_state, p.default_layer_state)
  IN  get_highest_layer(effective)

get_modifier_state(p) == BitOr(p.mods, p.oneshot_mods)

is_caps_word_on(p) == p.caps_word

\* data[] as filled by flush_event_batch's loop
RECURSIVE BatchCopy(_, _, _)
BatchCopy(data, p, i) ==
  IF i < p.batch_count /\ i < MAX_BATCH_EVENTS
  THEN BatchCopy([data EXCEPT ![2 + i * 3]     = p.event_batch[i * 3],
                              ![2 + i * 3 + 1] = p.event_batch[i * 3 + 1],
                              ![2 + i * 3 + 2] = p.event_batch[i * 3 + 2]],
                 p, i + 1)
  ELSE data

\* A faulty flush_event_batch: the batch is sent and kept.
flush_event_batch_keep(p) ==
  IF p.batch_count > 0
  THEN LET data == BatchCopy([ZeroFrame EXCEPT ![0] = MSG_KEY_BATCH,
                                               ![1] = p.batch_count], p, 0)
       IN  raw_hid_send(p, data)
  ELSE p

flush_event_batch(p) ==
  IF p.batch_count > 0
  THEN LET data == BatchCopy([ZeroFrame EXCEPT ![0] = MSG_KEY_BATCH,
                                               ![1] = p.batch_count], p, 0)
       IN  [raw_hid_send(p, data) EXCEPT !.batch_count = 0]
  ELSE p

\* A faulty add_event_to_batch: the batch is flushed one event too late.
add_event_to_batch_late(p, type, row, col) ==
  LET q == IF p.batch_count > MAX_BATCH_EVENTS THEN flush_event_batch(p) ELSE p
  IN  [q EXCEPT !.event_batch = [@ EXCEPT ![q.batch_count * 3]     = type,
                                          ![q.batch_count * 3 + 1] = row,
                                          ![q.batch_count * 3 + 2] = col],
                !.batch_count = (q.batch_count + 1) % 256,
                !.batch_elapsed = 0]

add_event_to_batch(p, type, row, col) ==
  LET q == IF p.batch_count >= MAX_BATCH_EVENTS THEN flush_event_batch(p) ELSE p
  IN  [q EXCEPT !.event_batch = [@ EXCEPT ![q.batch_count * 3]     = type,
                                          ![q.batch_count * 3 + 1] = row,
                                          ![q.batch_count * 3 + 2] = col],
                !.batch_count = (q.batch_count + 1) % 256,
                !.batch_elapsed = 0]

\* A faulty send_full_state: the caps-word byte is left out.
send_full_state_no_caps(p) ==
  LET response == [ZeroFrame EXCEPT ![0] = MSG_FULL_STATE,
                                    ![1] = get_effective_layer(p),
                                    ![3] = get_modifier_state(p),
                                    ![4] = 0]
  IN  raw_hid_send(p, response)

\* A faulty send_full_state: the reply also counts as the layer broadcast.
send_full_state_caching(p) ==
  LET response == [ZeroFrame EXCEPT ![0] = MSG_FULL_STATE,
                                    ![1] = get_effective_layer(p),
                                    ![2] = IF is_caps_word_on(p) THEN 1 ELSE 0,
                                    ![3] = get_modifier_state(p),
                                    ![4] = 0]
  IN  raw_hid_send([p EXCEPT !.last_broadcast_layer = get_effective_layer(p)],
                   response)

send_full_state(p) ==
  LET response == [ZeroFrame EXCEPT ![0] = MSG_FULL_STATE,
                                    ![1] = get_effective_layer(p),
                                    ![2] = IF is_caps_word_on(p) THEN 1 ELSE 0,
                                    ![3] = get_modifier_state(p),
                                    ![4] = 0]
  IN  raw_hid_send(p, response)

\* The timeout is not checked: the batch is flushed by housekeeping only
\* when it is full.
HousekeepingBatchWhenFull(p) ==
  IF p.batch_count >= MAX_BATCH_EVENTS /\ p.batch_elapsed > BATCH_TIMEOUT_MS
  THEN flush_event_batch(p)
  ELSE p

\* housekeeping_task_user, first part: flush of the batch on timeout
HousekeepingBatch(p) ==
  IF p.batch_count > 0 /\ p.batch_elapsed > BATCH_TIMEOUT_MS
  THEN flush_event_batch(p)
  ELSE p

\* A faulty HousekeepingLayer: the layer is sent on every tick, changed or
\* not.
HousekeepingLayerAlways(p) ==
  LET current_layer == get_effective_layer(p)
  IN  raw_hid_send([p EXCEPT !.last_broadcast_layer = current_layer],
                   [ZeroFrame EXCEPT ![0] = MSG_LAYER_STATE,
                                     ![1] = current_layer])

\* housekeeping_task_user, layer state broadcast
HousekeepingLayer(p) ==
  LET current_layer == get_effective_layer(p)
  IN  IF current_layer # p.last_broadcast_layer
      THEN raw_hid_send([p EXCEPT !.last_broadcast_layer = current_layer],
                        [ZeroFrame EXCEPT ![0] = MSG_LAYER_STATE,
                                          ![1] = current_layer])
      ELSE p

\* A faulty caps word broadcast: the cache is updated only when the endpoint
\* took the frame, so a dropped frame is sent again.
HousekeepingCapsWordRetry(p) ==
  LET current_caps_word == is_caps_word_on(p)
  IN  IF current_caps_word # p.last_caps_word_state
      THEN raw_hid_send([p EXCEPT !.last_caps_word_state =
                                    IF MSG_CAPS_WORD_STATE \in p.busy THEN @
                                    ELSE current_caps_word],
                        [ZeroFrame EXCEPT ![0] = MSG_CAPS_WORD_STATE,
                                          ![1] = IF current_caps_word THEN 1 ELSE 0])
      ELSE p

\* housekeeping_task_user, caps word state broadcast
HousekeepingCapsWord(p) ==
  LET current_caps_word == is_caps_word_on(p)
  IN  IF current_caps_word # p.last_caps_word_state
      THEN raw_hid_send([p EXCEPT !.last_caps_word_state = current_caps_word],
                        [ZeroFrame EXCEPT ![0] = MSG_CAPS_WORD_STATE,
                                          ![1] = IF current_caps_word THEN 1 ELSE 0])
      ELSE p

\* A faulty HousekeepingMods: the assignment to last_modifier_state is
\* missing.
HousekeepingModsNoCache(p) ==
  LET current_mods == get_modifier_state(p)
  IN  IF current_mods # p.last_modifier_state
      THEN raw_hid_send(p, [ZeroFrame EXCEPT ![0] = MSG_MODIFIER_STATE,
                                             ![1] = current_mods])
      ELSE p

\* housekeeping_task_user, modifier state broadcast
HousekeepingMods(p) ==
  LET current_mods == get_modifier_state(p)
  IN  IF current_mods # p.last_modifier_state
      THEN raw_hid_send([p EXCEPT !.last_modifier_state = current_mods],
                        [ZeroFrame EXCEPT ![0] = MSG_MODIFIER_STATE,
                                          ![1] = current_mods])
      ELSE p

housekeeping_task_user(p) ==
  HousekeepingMods(HousekeepingCapsWord(HousekeepingLayer(HousekeepingBatch(p))))

\* A faulty process_record_user: the type byte is the pressed flag.
process_record_user_flag(p, pressed, row, col) ==
  LET type == IF pressed THEN 1 ELSE 0
  IN  add_event_to_batch(p, type, row, col)

\* process_record_user: publishes the record; the record always continues
process_record_user(p, pressed, row, col) ==
  LET type == IF pressed THEN MSG_KEY_PRESS ELSE MSG_KEY_RELEASE
  IN  add_event_to_batch(p, type, row, col)

\* A faulty process_record_user: release records stop at the publisher.
process_record_user_result_press_only(pressed, row, col) == pressed

process_record_user_result(pressed, row, col) == TRUE

\* A faulty raw_hid_receive_kb: the default case answers like HEARTBEAT.
raw_hid_receive_kb_answers_all(p, data0) == send_full_state(p)

\* raw_hid_receive_kb: answers REQUEST_STATE and HEARTBEAT with the full state
raw_hid_receive_kb(p, data0) ==
  IF data0 = MSG_REQUEST_STATE THEN send_full_state(p)
  ELSE IF data0 = MSG_HEARTBEAT THEN send_full_state(p)
  ELSE p

raw_hid_receive_kb_result(data0) ==
  data0 = MSG_REQUEST_STATE \/ data0 = MSG_HEARTBEAT

(***************************************************************************)
(* The publisher of firmware/keymap.c and of the bak keymap: it broadcasts *)
(* the highest layer of layer_state and answers REQUEST_STATE with a       *)
(* LAYER_STATE frame; it does not publish key records.                     *)
(***************************************************************************)
housekeeping_task_user_szr(p) ==
  LET current == get_highest_layer(p.layer_state)
  IN  IF current # p.last_broadcast_layer
      THEN raw_hid_send([p EXCEPT !.last_broadcast_layer = current],
                        [ZeroFrame EXCEPT ![0] = MSG_LAYER_STATE,
                                          ![1] = current])
      ELSE p

raw_hid_receive_kb_szr(p, data0) ==
  IF data0 = MSG_REQUEST_STATE
  THEN raw_hid_send(p, [ZeroFrame EXCEPT ![0] = MSG_LAYER_STATE,
                                         ![1] = get_highest_layer(p.layer_state)])
  ELSE p

raw_hid_receive_kb_result_szr(data0) == data0 = MSG_REQUEST_STATE

housekeeping_task_user_bak(p) ==
  LET current == get_highest_layer(p.layer_state)
  IN  IF current # p.last_broadcast_layer
      THEN raw_hid_send([p EXCEPT !.last_broadcast_layer = current],
                        [ZeroFrame EXCEPT ![0] = MSG_LAYER_STATE,
                                          ![1] = current])
      ELSE p

raw_hid_receive_kb_bak(p, data0) ==
  IF data0 = MSG_REQUEST_STATE
  THEN raw_hid_send(p, [ZeroFrame EXCEPT ![0] = MSG_LAYER_STATE,
                                         ![1] = get_highest_layer(p.layer_state)])
  ELSE p

raw_hid_receive_kb_result_bak(data0) == data0 = MSG_REQUEST_STATE

(***************************************************************************)
(* The layer the RGB indicator of each keymap paints.                      *)
(***************************************************************************)
\* rgb_matrix_indicators_advanced_user: uint8_t layer = get_effective_layer()
rgb_matrix_indicators_layer(p) == get_effective_layer(p)

\* firmware/keymap.c: uint8_t layer = get_highest_layer(layer_state)
rgb_matrix_indicators_layer_szr(p) == get_highest_layer(p.layer_state)

\* bak keymap: uint8_t layer = get_highest_layer(layer_state)
rgb_matrix_indicators_layer_bak(p) == get_highest_layer(p.layer_state)

(***************************************************************************)
(* Keymap access and the tap-dance handlers of the keymaps.                *)
(***************************************************************************)
KeymapOf(b) ==
  IF b = "yxa" THEN keymaps ELSE IF b = "szr" THEN keymaps_szr ELSE keymaps_bak

NumLayers(b) == Len(KeymapOf(b))

\* keymaps[layer][row][col] at layout position p
keymap_key_to_keycode(b, layer, p) == KeymapOf(b)[layer + 1][p + 1]

\* reset_keyboard(): the keyboard leaves the firmware for the bootloader
reset_keyboard(s, cause) == [s EXCEPT !.boot = cause]

\* default_layer_set(state)
default_layer_set(s, state) == [s EXCEPT !.default_layer_state = state]

u_td_fn_boot(s, count) ==
  IF count = 2 THEN reset_keyboard(s, "u_td_fn_boot") ELSE s

\* A faulty U_TD_FN_LAYER: two taps or more select the layer.
u_td_fn_LAYER_at_least_2(s, LAYER, count) ==
  IF count >= 2 THEN default_layer_set(s, Pow2(LAYER)) ELSE s

\* U_TD_FN_LAYER(LAYER)
u_td_fn_LAYER(s, LAYER, count) ==
  IF count = 2 THEN default_layer_set(s, Pow2(LAYER)) ELSE s

\* tap_dance_actions[id], called with the final tap count
tap_dance_actions(s, id, count) ==
  IF id = U_TD_BOOT THEN u_td_fn_boot(s, count)
  ELSE IF id = U_TD_U_BASE THEN u_td_fn_LAYER(s, U_BASE, count)
  ELSE IF id = U_TD_U_EXTRA THEN u_td_fn_LAYER(s, U_EXTRA, count)
  ELSE IF id = U_TD_U_TAP THEN u_td_fn_LAYER(s, U_TAP, count)
  ELSE IF id \in {U_TD_U_BUTTON, U_TD_U_NAV, U_TD_U_MOUSE, U_TD_U_MEDIA,
                  U_TD_U_NUM, U_TD_U_SYM, U_TD_U_FUN}
       THEN u_td_fn_LAYER(s, U_BASE, count)
  ELSE s

(***************************************************************************)
(* LayerEngine (specification, section 4.2).                               *)
(***************************************************************************)
\* A faulty LayerWalk: the entry of the highest active layer is taken even
\* when it is Transparent.
RECURSIVE LayerWalkTop(_, _, _, _)
LayerWalkTop(b, active, p, i) ==
  IF i < 0 THEN KC_TRNS
  ELSE IF i < NumLayers(b) /\ BitSet(active, i)
       THEN keymap_key_to_keycode(b, i, p)
       ELSE LayerWalkTop(b, active, p, i - 1)

\* The walk from layer i downward over the active layers: the first entry
\* that is not Transparent; Transparent when there is none.
RECURSIVE LayerWalk(_, _, _, _)
LayerWalk(b, active, p, i) ==
  IF i < 0 THEN KC_TRNS
  ELSE IF i < NumLayers(b) /\ BitSet(active, i)
          /\ keymap_key_to_keycode(b, i, p).kind # "Transparent"
       THEN keymap_key_to_keycode(b, i, p)
       ELSE LayerWalk(b, active, p, i - 1)

ActiveLayers(s) == BitOr(s.layer_state, s.default_layer_state)

ResolveKey(s, p) == LayerWalk(s.build, ActiveLayers(s), p, MAX_LAYER - 1)

(***************************************************************************)
(* TapHoldArbiter (specification, section 4.1).                            *)
(***************************************************************************)
NoKey == 0 - 1
NoDance == [key |-> NoKey, id |-> 0, count |-> 0]
IdleKey == [s |-> "Idle", eff |-> KC_NO, quick |-> FALSE]

\* The modifier bit of a plain modifier keycode, 0 for any other keycode.
ModBitOf(kc) ==
  IF kc = "KC_LCTL" THEN MOD_LCTL
  ELSE IF kc = "KC_LSFT" THEN MOD_LSFT
  ELSE IF kc = "KC_LALT" THEN MOD_LALT
  ELSE IF kc = "KC_LGUI" THEN MOD_LGUI
  ELSE IF kc = "KC_RCTL" THEN MOD_RCTL
  ELSE IF kc = "KC_RSFT" THEN MOD_RSFT
  ELSE IF kc \in {"KC_RALT", "KC_ALGR"} THEN MOD_RALT
  ELSE IF kc = "KC_RGUI" THEN MOD_RGUI
  ELSE 0

\* What a key emits: a keycode, modifier bits or a layer bit.
KeyEff(kc)     == [kind |-> "Key",   kc |-> kc, arg |-> 0]
ModEff(mask)   == [kind |-> "Mod",   kc |-> "", arg |-> mask]
LayerEff(l)    == [kind |-> "Layer", kc |-> "", arg |-> l]
NoEff          == [kind |-> "None",  kc |-> "", arg |-> 0]

TapEffect(a) ==
  IF ModBitOf(a.kc) # 0 THEN ModEff(ModBitOf(a.kc)) ELSE KeyEff(a.kc)

HoldEffect(a) ==
  IF a.kind = "ModTap" THEN ModEff(a.arg) ELSE LayerEff(a.arg)

IsDualRole(a) == a.kind \in {"ModTap", "LayerTap"}

\* capsword_override = ko_make_basic(MOD_MASK_SHIFT, CW_TOGG, KC_CAPS): with
\* a shift modifier held, CW_TOGG is sent as KC_CAPS.  Only the yxa keymap
\* defines key overrides.
MOD_MASK_SHIFT == 34
capsword_override(s) ==
  s.build = "yxa" /\ BitAndNot(s.mods, BitAndNot(255, MOD_MASK_SHIFT)) # 0

\* get_tapping_term(keycode, record): TAPPING_TERM_PER_KEY is defined and no
\* get_tapping_term is, so every key is arbitrated with TAPPING_TERM.
get_tapping_term(a) == TAPPING_TERM

\* Caps word continues over letters and a few word keys and ends otherwise.
IsWordKey(kc) ==
  kc \in {"KC_A", "KC_B", "KC_C", "KC_D", "KC_E", "KC_F", "KC_G", "KC_H",
          "KC_I", "KC_J", "KC_K", "KC_L", "KC_M", "KC_N", "KC_O", "KC_P",
          "KC_Q", "KC_R", "KC_S", "KC_T", "KC_U", "KC_V", "KC_W", "KC_X",
          "KC_Y", "KC_Z", "KC_1", "KC_2", "KC_3", "KC_4", "KC_5", "KC_6",
          "KC_7", "KC_8", "KC_9", "KC_0", "KC_BSPC", "KC_DEL", "KC_MINS"}

\* The effect e of key k takes hold: modifier bits and layer bits are set,
\* and the report is logged.
EmitPress(s, k, e) ==
  LET t == [s EXCEPT !.hid = Append(@, [key |-> k, pressed |-> TRUE, eff |-> e])]
  IN  IF e.kind = "Mod" THEN [t EXCEPT !.mods = BitOr(@, e.arg)]
      ELSE IF e.kind = "Layer" THEN [t EXCEPT !.layer_state = BitOr(@, Pow2(e.arg))]
      ELSE IF e.kind = "Key" /\ s.caps_word /\ ~IsWordKey(e.kc)
           THEN [t EXCEPT !.caps_word = FALSE]
      ELSE t

\* A faulty EmitRelease: the release of a layer key turns every momentary
\* layer off.
EmitReleaseAllLayers(s, k, e) ==
  LET t == [s EXCEPT !.hid = Append(@, [key |-> k, pressed |-> FALSE, eff |-> e])]
  IN  IF e.kind = "Mod" THEN [t EXCEPT !.mods = BitAndNot(@, e.arg)]
      ELSE IF e.kind = "Layer" THEN [t EXCEPT !.layer_state = 0]
      ELSE t

\* The effect e of key k ends: exactly the bits it set are cleared.
EmitRelease(s, k, e) ==
  LET t == [s EXCEPT !.hid = Append(@, [key |-> k, pressed |-> FALSE, eff |-> e])]
  IN  IF e.kind = "Mod" THEN [t EXCEPT !.mods = BitAndNot(@, e.arg)]
      ELSE IF e.kind = "Layer" THEN [t EXCEPT !.layer_state = BitAndNot(@, Pow2(e.arg))]
      ELSE t

\* The record of key k is handed on (post-arbitration): the yxa build's
\* process_record_user observes it.
Observe(s, k, pressed) ==
  IF s.build = "yxa"
  THEN process_record_user(s, pressed, KeyRow(k), KeyCol(k))
  ELSE s

\* The record continues to normal key processing (its effect is t) when
\* process_record_user returns true, and stops there otherwise.
Continue(s, k, pressed, t) ==
  IF s.build = "yxa" /\ ~process_record_user_result(pressed, KeyRow(k), KeyCol(k))
  THEN Observe(s, k, pressed)
  ELSE t

\* The tap dance in progress ends: its handler runs with the final count.
FinishDance(s) ==
  IF s.td.key = NoKey THEN s
  ELSE tap_dance_actions(
         [s EXCEPT !.td = NoDance,
                   !.danced = Append(@, [id |-> s.td.id, count |-> s.td.count])],
         s.td.id, s.td.count)

\* A faulty IsQuickTap: the previous release of the key is not consulted.
NeverQuickTap(s, k) == FALSE

\* Quick-tap: the same physical key was released less than QUICK_TAP_TERM ago.
IsQuickTap(s, k) == s.relAge[k] < QUICK_TAP_TERM

SetKey(s, k, st, e, q) ==
  [s EXCEPT !.ks = [@ EXCEPT ![k] = [s |-> st, eff |-> e, quick |-> q]]]

\* The next tap count of a tap dance.
NextCount(c) == IF c >= MaxTaps THEN MaxTaps ELSE c + 1

\* A press of key k reaches the arbiter while no key is Pending.
PressIdle(s, k) ==
  LET a == ResolveKey(s, k)
      \* a press of another key interrupts the tap dance in progress
      u == IF s.td.key # NoKey /\ ~(a.kind = "TapDance" /\ s.td.key = k)
           THEN FinishDance(s) ELSE s
      o == Observe(u, k, TRUE)
  IN  IF a.kind = "Transparent" THEN s
      ELSE IF u.boot # "none" THEN u
      ELSE IF IsDualRole(a) /\ ~IsQuickTap(u, k)
        THEN [SetKey(u, k, "Pending", a, FALSE) EXCEPT !.pend = k]
      ELSE Continue(u, k, TRUE,
        IF IsDualRole(a)
          THEN SetKey(EmitPress(o, k, TapEffect(a)), k, "Tapped", TapEffect(a), TRUE)
        ELSE IF a.kind = "Plain"
          THEN SetKey(EmitPress(o, k, TapEffect(a)), k, "Resolved", TapEffect(a), FALSE)
        ELSE IF a.kind = "LayerMomentary"
          THEN SetKey(EmitPress(o, k, LayerEff(a.arg)), k, "Held", LayerEff(a.arg), FALSE)
        ELSE IF a.kind = "TapDance"
          THEN LET d == IF o.td.key = k
                        THEN [o.td EXCEPT !.count = NextCount(@)]
                        ELSE [key |-> k, id |-> a.arg, count |-> 1]
               IN  SetKey([o EXCEPT !.td = d], k, "Dance", NoEff, FALSE)
        ELSE IF a.kind = "Boot"
          THEN reset_keyboard(o, "QK_BOOT")
        ELSE IF a.kind = "CapsWord"
          THEN IF capsword_override(o)
               THEN SetKey(EmitPress(o, k, KeyEff("KC_CAPS")), k, "Resolved",
                           KeyEff("KC_CAPS"), FALSE)
               ELSE SetKey([o EXCEPT !.caps_word = ~@], k, "Resolved", NoEff, FALSE)
        ELSE \* Blocked: the event is consumed and nothing is emitted
             SetKey(o, k, "Resolved", NoEff, FALSE))

\* A faulty ReleaseIdle: the release is looked up in the keymap as it is when
\* the key goes up, instead of being what the press emitted.
ReleaseByMap(s, k) ==
  LET st == s.ks[k]
      o  == Observe(s, k, FALSE)
      a  == ResolveKey(s, k)
      e  == IF st.s = "Held" /\ IsDualRole(a) THEN HoldEffect(a)
            ELSE IF a.kind \in {"Plain", "ModTap", "LayerTap"} THEN TapEffect(a)
            ELSE st.eff
  IN  IF st.s = "Idle" THEN s
      ELSE IF st.eff.kind = "None"
        THEN SetKey(o, k, "Idle", KC_NO, FALSE)
        ELSE SetKey(EmitRelease(o, k, e), k, "Idle", KC_NO, FALSE)

\* A release of key k reaches the arbiter while no key is Pending: the key
\* releases what its press emitted.  A release with no press is dropped.
ReleaseIdle(s, k) ==
  LET st == s.ks[k]
      o  == Observe(s, k, FALSE)
  IN  IF st.s = "Idle" THEN s
      ELSE Continue(s, k, FALSE,
        IF st.eff.kind = "None"
          THEN SetKey(o, k, "Idle", KC_NO, FALSE)
          ELSE SetKey(EmitRelease(o, k, st.eff), k, "Idle", KC_NO, FALSE))

\* The Pending key is resolved as tap: its tap keycode is pressed.
ResolveTap(s) ==
  LET k == s.pend
      a == s.ks[k].eff
      u == [s EXCEPT !.pend = NoKey, !.buf = << >>]
  IN  Continue(u, k, TRUE,
        SetKey(EmitPress(Observe(u, k, TRUE), k, TapEffect(a)),
               k, "Tapped", TapEffect(a), FALSE))

\* A faulty ResolveHold: the tap keycode is emitted before the hold effect.
ResolveHoldAfterTap(s) ==
  LET k == s.pend
      a == s.ks[k].eff
      u == [s EXCEPT !.pend = NoKey, !.buf = << >>]
      o == Observe(u, k, TRUE)
      t == EmitRelease(EmitPress(o, k, TapEffect(a)), k, TapEffect(a))
  IN  Continue(u, k, TRUE,
        SetKey(EmitPress(t, k, HoldEffect(a)), k, "Held", HoldEffect(a), FALSE))

\* The Pending key is resolved as hold: its modifier or layer takes hold.
ResolveHold(s) ==
  LET k == s.pend
      a == s.ks[k].eff
      u == [s EXCEPT !.pend = NoKey, !.buf = << >>]
  IN  Continue(u, k, TRUE,
        SetKey(EmitPress(Observe(u, k, TRUE), k, HoldEffect(a)),
               k, "Held", HoldEffect(a), FALSE))

\* A faulty PermissiveHoldFires: the per-key opt-in is never granted, so the
\* rule never fires.
PermissiveHoldNeverFires(s, ev) == FALSE

\* Permissive hold: ev releases another key whose press is in the log.
PermissiveHoldFires(s, ev) ==
  /\ s.cfg.permissive_hold
  /\ ~ev.pressed
  /\ ev.key # s.pend
  /\ \E i \in 1 .. Len(s.buf) : s.buf[i].key = ev.key /\ s.buf[i].pressed

\* Hold on other key press, with the bilateral gate: ev presses another key,
\* on the opposite half when the gate is enabled.
HoldOnOtherKeyPressFires(s, ev) ==
  /\ s.cfg.hold_on_other_key_press
  /\ ev.pressed
  /\ ev.key # s.pend
  /\ (s.cfg.bilateral => Hand(ev.key) # Hand(s.pend))

RECURSIVE ProcessEvent(_, _)
RECURSIVE Replay(_, _)

\* A faulty Replay: the last event of the log is not replayed.
ReplayDropsLast(s, evs) ==
  IF Len(evs) <= 1 \/ s.boot # "none" THEN s
  ELSE Replay(ProcessEvent(s, Head(evs)), Tail(evs))

\* The buffered events are replayed in their recorded order.
Replay(s, evs) ==
  IF evs = << >> \/ s.boot # "none" THEN s
  ELSE Replay(ProcessEvent(s, Head(evs)), Tail(evs))

\* A faulty OverflowHold: the event that finds the log full is dropped.
OverflowDrops(s, ev) == Replay(ResolveHold(s), s.buf)

\* The log of the Pending key is full when ev arrives: the key is resolved
\* as hold, then the log and ev itself are processed.
OverflowHold(s, ev) == Replay(ResolveHold(s), Append(s.buf, ev))

\* One key event passes through the arbiter.
ProcessEvent(s, ev) ==
  IF s.pend = NoKey
  THEN IF ev.pressed THEN PressIdle(s, ev.key) ELSE ReleaseIdle(s, ev.key)
  ELSE IF ev.key = s.pend /\ ~ev.pressed
       \* release before term: tap, then the log, then the release itself
       THEN Replay(ResolveTap(s), Append(s.buf, ev))
  ELSE IF Len(s.buf) >= MAX_OVERLAPS
       \* the log is full: forced hold, nothing is lost
       THEN OverflowHold(s, ev)
  ELSE IF PermissiveHoldFires(s, ev) \/ HoldOnOtherKeyPressFires(s, ev)
       THEN Replay(ResolveHold(s), Append(s.buf, ev))
  ELSE [s EXCEPT !.buf = Append(@, ev)]

\* The arbitration timeout: the Pending key has been down for its term.
ArbiterTimeout(s) ==
  IF s.pend # NoKey /\ s.age[s.pend] >= get_tapping_term(s.ks[s.pend].eff)
  THEN Replay(ResolveHold(s), s.buf)
  ELSE s

\* The tap-dance timeout: no further tap within TAPPING_TERM.
DanceTimeout(s) ==
  IF s.td.key # NoKey /\ s.age[s.td.key] >= TAPPING_TERM
  THEN FinishDance(s)
  ELSE s

(***************************************************************************)
(* The main loop.  A matrix scan hands a changed key to the arbiter and    *)
(* the loop iteration ends with housekeeping_task_user; an iteration with  *)
(* no key change runs the arbitration timeouts and housekeeping.           *)
(***************************************************************************)
\* No host frame was handled in the step.
NoFrame == [tag |-> 0 - 1, handled |-> FALSE]

\* The state at the start of a step: the reports and frames of the step
\* before are gone.
State ==
  [build |-> build, cfg |-> cfg, down |-> down, burst |-> burst, ks |-> ks,
   age |-> age, relAge |-> relAge, pend |-> pend, buf |-> buf, td |-> td,
   layer_state |-> layer_state, default_layer_state |-> default_layer_state,
   mods |-> mods, oneshot_mods |-> oneshot_mods, caps_word |-> caps_word,
   boot |-> boot, hid |-> << >>, danced |-> << >>,
   last_broadcast_layer |-> last_broadcast_layer,
   last_caps_word_state |-> last_caps_word_state,
   last_modifier_state |-> last_modifier_state,
   event_batch |-> event_batch, batch_count |-> batch_count,
   batch_elapsed |-> batch_elapsed, batch_wait |-> batch_wait,
   sent |-> << >>, ok |-> << >>,
   busy |-> {}, received |-> NoFrame, link |-> link, host |-> host,
   led |-> led]

\* A key's age matters while it is Pending, logged or dancing; it is kept
\* for a quick-tapped key that is still down.
NeedsAge(s, k) ==
  \/ k = s.pend
  \/ s.ks[k].quick
  \/ k = s.td.key
  \/ \E i \in 1 .. Len(s.buf) : s.buf[i].key = k /\ s.buf[i].pressed

\* Key k is a dual-role key on some layer of build b.
EverDualRole(b, k) ==
  \E l \in 0 .. NumLayers(b) - 1 : IsDualRole(keymap_key_to_keycode(b, l, k))

\* Values the program cannot read any more are forgotten: the age of a key
\* that is not arbitrated, the release age of a key that is never dual-role,
\* last_batch_time of an empty batch, batch entries at and after batch_count.
Normalize(s) ==
  [s EXCEPT !.age = [k \in ModelKeys |->
                       IF NeedsAge(s, k) THEN s.age[k] ELSE TAPPING_TERM],
            !.relAge = [k \in ModelKeys |->
                       IF EverDualRole(s.build, k) THEN s.relAge[k]
                       ELSE QUICK_TAP_TERM],
            !.batch_elapsed = IF s.batch_count = 0 THEN BATCH_TIMEOUT_MS + 1
                              ELSE s.batch_elapsed,
            !.event_batch = [i \in DOMAIN s.event_batch |->
                               IF i < s.batch_count * 3 THEN s.event_batch[i]
                               ELSE 0]]

\* The host applies the frames of the step that the endpoint took, in order.
HostApply(h, f) ==
  IF f[0] = MSG_LAYER_STATE THEN [h EXCEPT !.layer = f[1]]
  ELSE IF f[0] = MSG_CAPS_WORD_STATE THEN [h EXCEPT !.caps = (f[1] = 1)]
  ELSE IF f[0] = MSG_MODIFIER_STATE THEN [h EXCEPT !.mods = f[1]]
  ELSE IF f[0] = MSG_FULL_STATE
       THEN [layer |-> f[1], caps |-> (f[2] = 1), mods |-> f[3]]
  ELSE h

RECURSIVE HostApplyAll(_, _, _, _)
HostApplyAll(h, frames, taken, i) ==
  IF i > Len(frames) THEN h
  ELSE HostApplyAll(IF taken[i] THEN HostApply(h, frames[i]) ELSE h,
                    frames, taken, i + 1)

Deliver(s) == [s EXCEPT !.host = HostApplyAll(s.host, s.sent, s.ok, 1)]

\* The period of the main loop in ms, for the specifications that follow the
\* batch timer; the spec gives a loop rate of 1 kHz or more.
LoopMs == 1

\* The history variable batch_wait saturates above the longest wait a
\* property speaks of.
WaitCap == BATCH_TIMEOUT_MS + LoopMs + 1

SentTags(t) == {t.sent[i][0] : i \in 1 .. Len(t.sent)}

\* How long the oldest event of the batch has been pending after a step:
\* the events of a batch that was empty before the step, or that follows a
\* KEY_BATCH frame of the step, were added in the step.
BatchWait(n) ==
  IF n.batch_count = 0 THEN WaitCap
  ELSE IF batch_count = 0 \/ MSG_KEY_BATCH \in SentTags(n) THEN 0
  ELSE n.batch_wait

Install(s) ==
  \E n \in {Normalize(Deliver(s))} :
      /\ build' = n.build
      /\ cfg' = n.cfg
      /\ down' = n.down
      /\ burst' = n.burst
      /\ ks' = n.ks
      /\ age' = n.age
      /\ relAge' = n.relAge
      /\ pend' = n.pend
      /\ buf' = n.buf
      /\ td' = n.td
      /\ layer_state' = n.layer_state
      /\ default_layer_state' = n.default_layer_state
      /\ mods' = n.mods
      /\ oneshot_mods' = n.oneshot_mods
      /\ caps_word' = n.caps_word
      /\ boot' = n.boot
      /\ hid' = n.hid
      /\ danced' = n.danced
      /\ last_broadcast_layer' = n.last_broadcast_layer
      /\ last_caps_word_state' = n.last_caps_word_state
      /\ last_modifier_state' = n.last_modifier_state
      /\ event_batch' = n.event_batch
      /\ batch_count' = n.batch_count
      /\ batch_elapsed' = n.batch_elapsed
      /\ batch_wait' = BatchWait(n)
      /\ sent' = n.sent
      /\ ok' = n.ok
      /\ received' = n.received
      /\ link' = n.link
      /\ host' = n.host
      /\ led' = n.led

Sat(x, cap) == IF x > cap THEN cap ELSE x

\* The tap-hold options a build can have; the bilateral gate is an option of
\* hold on other key press.
Cfgs ==
  {c \in [permissive_hold : BOOLEAN, hold_on_other_key_press : BOOLEAN,
          bilateral : BOOLEAN] : c.bilateral => c.hold_on_other_key_press}

\* The tags of the frames the endpoint can be busy for in a loop iteration
\* that hands it the frames of t: on a lossy link any of them, else none.
BusyChoices(t) == IF link = "lossy" THEN SUBSET SentTags(t) ELSE {{}}

\* What the host shows before it has received a frame.
HostUnknown == [layer |-> NO_LAYER_BROADCAST, caps |-> FALSE, mods |-> 0]

\* The LED buffer before the first paint: every LED off.
Leds == 0 .. 35
LedsOff == [i \in Leds |-> << 0, 0, 0 >>]

InitLink(builds, cfgs, links) ==
  /\ build \in builds
  /\ cfg \in cfgs
  /\ link \in links
  /\ down = {}
  /\ burst = 0
  /\ ks = [k \in ModelKeys |-> IdleKey]
  /\ age = [k \in ModelKeys |-> TAPPING_TERM]
  /\ relAge = [k \in ModelKeys |-> QUICK_TAP_TERM]
  /\ pend = NoKey
  /\ buf = << >>
  /\ td = NoDance
  /\ layer_state = 0
  /\ default_layer_state = Pow2(U_BASE)
  /\ mods = 0
  /\ oneshot_mods = 0
  /\ caps_word = FALSE
  /\ boot = "none"
  /\ hid = << >>
  /\ danced = << >>
  /\ last_broadcast_layer = NO_LAYER_BROADCAST
  /\ last_caps_word_state = FALSE
  /\ last_modifier_state = 0
  /\ event_batch = [i \in 0 .. MAX_BATCH_EVENTS * 3 - 1 |-> 0]
  /\ batch_count = 0
  /\ batch_elapsed = BATCH_TIMEOUT_MS + 1
  /\ batch_wait = WaitCap
  /\ sent = << >>
  /\ ok = << >>
  /\ received = NoFrame
  /\ host = HostUnknown
  /\ led = LedsOff

InitWith(builds, cfgs) == InitLink(builds, cfgs, {"reliable"})

\* housekeeping_task_user of the build
Housekeeping(s) ==
  IF s.boot # "none" THEN s
  ELSE IF s.build = "yxa" THEN housekeeping_task_user(s)
  ELSE IF s.build = "szr" THEN housekeeping_task_user_szr(s)
  ELSE housekeeping_task_user_bak(s)

\* The loop iteration in which the matrix scan sees key k go down, with the
\* endpoint busy for the tags of B.
KeyPressRun(k, B) ==
  Housekeeping(ProcessEvent([State EXCEPT !.down = @ \cup {k}, !.burst = @ + 1,
                                          !.age = [@ EXCEPT ![k] = 0],
                                          !.busy = B],
                            [key |-> k, pressed |-> TRUE]))

\* The matrix scan sees key k go down, as one of at most n key events
\* between two clock steps.
KeyPressWithin(k, n) ==
  /\ boot = "none"
  /\ k \notin down
  /\ burst < n
  /\ \E B \in BusyChoices(KeyPressRun(k, {})) : Install(KeyPressRun(k, B))

KeyPress(k) == KeyPressWithin(k, MaxBurst)

\* The loop iteration in which the matrix scan sees key k go up.
KeyReleaseRun(k, B) ==
  Housekeeping(ProcessEvent([State EXCEPT !.down = @ \ {k}, !.burst = @ + 1,
                                          !.relAge = [@ EXCEPT ![k] = 0],
                                          !.busy = B],
                            [key |-> k, pressed |-> FALSE]))

\* The matrix scan sees key k go up.
KeyReleaseWithin(k, n) ==
  /\ boot = "none"
  /\ k \in down
  /\ burst < n
  /\ \E B \in BusyChoices(KeyReleaseRun(k, {})) : Install(KeyReleaseRun(k, B))

KeyRelease(k) == KeyReleaseWithin(k, MaxBurst)

\* A loop iteration with no key change ends d ms later: the timeouts of the
\* arbiter and of the tap dance, then housekeeping.
LoopStart(d, B) ==
  [State EXCEPT
     !.burst = 0,
     !.age = [k \in ModelKeys |-> Sat(age[k] + d, TAPPING_TERM)],
     !.relAge = [k \in ModelKeys |-> Sat(relAge[k] + d, QUICK_TAP_TERM)],
     !.batch_elapsed = Sat(batch_elapsed + d, BATCH_TIMEOUT_MS + 1),
     !.batch_wait = Sat(batch_wait + d, WaitCap),
     !.busy = B]

LoopEndRun(d, B) == Housekeeping(DanceTimeout(ArbiterTimeout(LoopStart(d, B))))

LoopEnd(d) ==
  /\ boot = "none"
  /\ \E B \in BusyChoices(LoopEndRun(d, {})) : Install(LoopEndRun(d, B))

\* raw_hid_receive_kb of the build
HidReceive(s, data0) ==
  IF s.build = "yxa" THEN raw_hid_receive_kb(s, data0)
  ELSE IF s.build = "szr" THEN raw_hid_receive_kb_szr(s, data0)
  ELSE raw_hid_receive_kb_bak(s, data0)

\* What raw_hid_receive_kb of the build returns: the frame was handled.
HidReceiveResult(b, data0) ==
  IF b = "yxa" THEN raw_hid_receive_kb_result(data0)
  ELSE IF b = "szr" THEN raw_hid_receive_kb_result_szr(data0)
  ELSE raw_hid_receive_kb_result_bak(data0)

\* The host sends a frame whose first byte is data0.
HostFrameRun(data0, B) ==
  [HidReceive([State EXCEPT !.busy = B], data0) EXCEPT
     !.received = [tag |-> data0, handled |-> HidReceiveResult(build, data0)]]

HostFrame(data0) ==
  /\ boot = "none"
  /\ \E B \in BusyChoices(HostFrameRun(data0, {})) : Install(HostFrameRun(data0, B))

\* The tap-hold options of the repository's builds.  config.h defines
\* PERMISSIVE_HOLD together with PERMISSIVE_HOLD_PER_KEY and
\* HOLD_ON_OTHER_KEY_PRESS_PER_KEY and the keymaps define no per-key
\* function, so the defaults of the firmware core decide: permissive hold
\* is on or off, hold on other key press is off.
BuildCfgs ==
  {c \in Cfgs : ~c.hold_on_other_key_press}

Tick == LoopEnd(TickMs)

(***************************************************************************)
(* Spec: tap-hold arbitration in the yxa build under every combination of  *)
(* the tap-hold options.  Key 13 is the home-row mod-tap LSFT_T(KC_T) of   *)
(* the left half, 14 the plain key KC_G of the left half, 15 the plain     *)
(* key KC_M of the right half.                                             *)
(***************************************************************************)
TapHoldKeys == {13, 14, 15}

Init == InitWith({"yxa"}, Cfgs)
Press == \E k \in TapHoldKeys : KeyPress(k)
Release == \E k \in TapHoldKeys : KeyRelease(k)
Next == Press \/ Release \/ Tick
Spec == Init /\ [][Next]_vars

(***************************************************************************)
(* SpecLayers: layers, modifiers and the default layer in the yxa build.   *)
(* Key 31 is LT(U_NAV, KC_SPC); key 13 is LSFT_T on the base layers and    *)
(* KC_LSFT on NAV; key 2 is a letter on the base layers and the tap dance  *)
(* TD(U_TD_U_EXTRA) on NAV.                                                *)
(***************************************************************************)
LayerKeys == {2, 13, 31}

InitLayers == InitWith({"yxa"}, BuildCfgs)
PressLayers == \E k \in LayerKeys : KeyPress(k)
ReleaseLayers == \E k \in LayerKeys : KeyRelease(k)
NextLayers == PressLayers \/ ReleaseLayers \/ Tick
SpecLayers == InitLayers /\ [][NextLayers]_vars

(***************************************************************************)
(* SpecDance: the layer-select tap dances of the yxa build.  On NAV, key 2 *)
(* is TD(U_TD_U_EXTRA) and key 23 is TD(U_TD_U_NAV); both are letters on   *)
(* the base layers.                                                        *)
(***************************************************************************)
DanceKeys == {2, 23, 31}

InitDance == InitWith({"yxa"}, BuildCfgs)
PressDance == \E k \in DanceKeys : KeyPress(k)
ReleaseDance == \E k \in DanceKeys : KeyRelease(k)
NextDance == PressDance \/ ReleaseDance \/ Tick
SpecDance == InitDance /\ [][NextDance]_vars

(***************************************************************************)
(* SpecPublish: the three published channels of the yxa build.  Key 13     *)
(* holds shift, key 31 holds NAV, key 15 is CW_TOGG on NAV.                *)
(***************************************************************************)
PublishKeys == {13, 15, 31}

InitPublish == InitWith({"yxa"}, BuildCfgs)
PressPublish == \E k \in PublishKeys : KeyPress(k)
ReleasePublish == \E k \in PublishKeys : KeyRelease(k)
NextPublish == PressPublish \/ ReleasePublish \/ Tick
SpecPublish == InitPublish /\ [][NextPublish]_vars

(***************************************************************************)
(* SpecBuilds: the three keymaps of the repository, with the host sending  *)
(* frames.  Key 0 carries the bootloader bindings; the other keys reach    *)
(* the layers it sits on.                                                  *)
(***************************************************************************)
KeysOf(b) ==
  IF b = "yxa" THEN {0, 2, 31}
  ELSE IF b = "szr" THEN {0, 34, 35}
  ELSE {0, 31}

HostTags == {MSG_REQUEST_STATE, MSG_HEARTBEAT, MSG_LAYER_STATE}

InitBuilds == InitWith({"yxa", "szr", "bak"}, BuildCfgs)
PressBuilds == \E k \in KeysOf(build) : KeyPress(k)
ReleaseBuilds == \E k \in KeysOf(build) : KeyRelease(k)
Host == \E t \in HostTags : HostFrame(t)
NextBuilds == PressBuilds \/ ReleaseBuilds \/ Tick \/ Host
SpecBuilds == InitBuilds /\ [][NextBuilds]_vars

(***************************************************************************)
(* SpecRecords: the publisher of the yxa build under every sequence of key *)
(* records.  process_record_user is handed press and release records of    *)
(* a key in any order, the same record twice in a row included; up to     *)
(* MaxRecords records arrive between two clock steps.  The tap-hold        *)
(* options play no part.                                                   *)
(***************************************************************************)
\* Records handed to the publisher between two clock steps, at most.
MaxRecords == 9

RecordKeys == {13}

\* process_record_user is called with a record of key k; the loop iteration
\* ends with housekeeping.
RecordRun(k, pressed, B) ==
  Housekeeping(Observe([State EXCEPT !.burst = @ + 1, !.busy = B], k, pressed))

Record(k, pressed) ==
  /\ boot = "none"
  /\ burst < MaxRecords
  /\ \E B \in BusyChoices(RecordRun(k, pressed, {})) :
       Install(RecordRun(k, pressed, B))

InitRecords == InitWith({"yxa"}, {c \in BuildCfgs : c.permissive_hold})
PressRecord == \E k \in RecordKeys : Record(k, TRUE)
ReleaseRecord == \E k \in RecordKeys : Record(k, FALSE)
NextRecords == PressRecord \/ ReleaseRecord \/ Tick
SpecRecords == InitRecords /\ [][NextRecords]_vars

(***************************************************************************)
(* SpecHost: the yxa keymap with a host on a lossy link.  The endpoint can *)
(* be busy for any of the frames of a loop iteration; the host applies the *)
(* frames it receives and sends REQUEST_STATE, HEARTBEAT and frames with   *)
(* another tag.  Key 31 holds NAV; on NAV key 15 is CW_TOGG and key 13 is  *)
(* KC_LSFT, and the two are pressed only while a layer is held.            *)
(***************************************************************************)
HostKeys == {13, 15, 31}

InitHost == InitLink({"yxa"}, {c \in BuildCfgs : c.permissive_hold}, {"lossy"})
PressHost == \E k \in HostKeys : (k # 31 => layer_state # 0) /\ KeyPress(k)
ReleaseHost == \E k \in HostKeys : KeyRelease(k)
NextHost == PressHost \/ ReleaseHost \/ Tick \/ Host
SpecHost == InitHost /\ [][NextHost]_vars


(***************************************************************************)
(* SpecOverlap: the overlap log of a Pending key.  Key 13 is LSFT_T(KC_T)  *)
(* and key 14 is KC_G; neither permissive hold nor hold on other key press *)
(* is enabled, so that every event of key 14 is logged while key 13 is     *)
(* Pending.                                                                *)
(***************************************************************************)
\* Key events between two clock steps, at most.
MaxOverlapBurst == 19
OverlapKeys == {13, 14}
InitOverlap ==
  InitWith({"yxa"}, {c \in Cfgs : ~c.permissive_hold /\ ~c.hold_on_other_key_press})
PressOverlap == \E k \in OverlapKeys : KeyPressWithin(k, MaxOverlapBurst)
ReleaseOverlap == \E k \in OverlapKeys : KeyReleaseWithin(k, MaxOverlapBurst)
NextOverlap == PressOverlap \/ ReleaseOverlap \/ Tick
SpecOverlap == InitOverlap /\ [][NextOverlap]_vars

(***************************************************************************)
(* SpecBatch: the batch timer of the yxa build.  Key records reach the     *)
(* publisher in any order and the main loop ends an iteration every LoopMs *)
(* ms on a reliable link, so that the batch timeout is several loop         *)
(* iterations long.                                                        *)
(* SpecBatchFair adds what the scheduling guarantees: the main loop keeps  *)
(* running.                                                                *)
(***************************************************************************)
\* A loop iteration of the yxa build with no key record and the endpoint
\* free, LoopMs ms after the one before: LoopEndRun(LoopMs, {}) with
\* housekeeping_task_user written statement by statement.
Loop ==
  /\ boot = "none"
  /\ \E s0 \in {LoopStart(LoopMs, {})} :
     \E s1 \in {DanceTimeout(ArbiterTimeout(s0))} :
     \E h1 \in {HousekeepingBatch(s1)} :
     \E h2 \in {HousekeepingLayer(h1)} :
     \E h3 \in {HousekeepingCapsWord(h2)} :
     \E h4 \in {HousekeepingMods(h3)} : Install(h4)
NextBatch == PressRecord \/ ReleaseRecord \/ Loop
SpecBatch == InitRecords /\ [][NextBatch]_vars
SpecBatchFair == SpecBatch /\ WF_vars(Loop)
(***************************************************************************)
(* The RGB layer indicator of yxa_features.c.                              *)
(***************************************************************************)
\* FINGER_MAP: the finger of each LED (0 pinky .. 3 index/inner, 4 thumb).
FINGER_MAP ==
  [i \in Leds |->
     << 3, 3, 2, 1, 0,  3, 3, 2, 1, 0,  3, 3, 2, 1, 0,  4, 4, 4,
        0, 1, 2, 3, 3,  0, 1, 2, 3, 3,  0, 1, 2, 3, 3,  4, 4, 4 >>[i + 1]]

\* FINGER_COLORS: the HSV colour of each finger on the base layers.
FINGER_COLORS ==
  [f \in 0 .. 4 |->
     << << 128, 255, 180 >>, << 213, 255, 180 >>, << 85, 255, 180 >>,
        << 43, 255, 180 >>, << 170, 255, 180 >> >>[f + 1]]

YXA_CYAN   == << 128, 255, 200 >>
YXA_GREEN  == << 85, 255, 200 >>
YXA_PURPLE == << 213, 255, 200 >>
YXA_YELLOW == << 43, 255, 200 >>
YXA_RED    == << 0, 255, 200 >>
YXA_BLUE   == << 170, 255, 200 >>
YXA_ORANGE == << 21, 255, 200 >>
YXA_WHITE  == << 0, 0, 200 >>

\* >> 8 on a 16-bit value
Shr8(x) == x \div 256

\* hsv_to_rgb of the QMK core (8-bit region, remainder, p, q and t).
hsv_to_rgb(hsv) ==
  LET h == hsv[1]
      s == hsv[2]
      v == hsv[3]
      region == (h * 6) \div 255
      remainder == ((h * 2 - region * 85) * 3) % 256
      p == Shr8(v * (255 - s)) % 256
      q == Shr8(v * (255 - Shr8(s * remainder))) % 256
      t == Shr8(v * (255 - Shr8(s * (255 - remainder)))) % 256
  IN  IF s = 0 THEN << v, v, v >>
      ELSE IF region \in {0, 6} THEN << v, t, p >>
      ELSE IF region = 1 THEN << q, v, p >>
      ELSE IF region = 2 THEN << p, v, t >>
      ELSE IF region = 3 THEN << p, q, v >>
      ELSE IF region = 4 THEN << t, p, v >>
      ELSE << v, p, q >>

\* rgb_matrix_set_color of the QMK core: the colour of one LED of the buffer.
rgb_matrix_set_color(buffer, index, rgb) ==
  IF index \in DOMAIN buffer THEN [buffer EXCEPT ![index] = rgb] ELSE buffer

\* A faulty set_led_hsv: the new colour is blended with the colour the LED has.
set_led_hsv_blend(p, i, hsv) ==
  LET rgb == hsv_to_rgb(hsv)
      old == p.led[i]
  IN  [p EXCEPT !.led = rgb_matrix_set_color(@, i,
                          << (old[1] + rgb[1]) \div 2, (old[2] + rgb[2]) \div 2,
                             (old[3] + rgb[3]) \div 2 >>)]

set_led_hsv(p, i, hsv) ==
  [p EXCEPT !.led = rgb_matrix_set_color(@, i, hsv_to_rgb(hsv))]

\* The loops below call set_led_hsv once for each LED of a range; the calls
\* write different LEDs, so each LED of the range gets what its call writes.
\* for (i = lo; i <= hi; i++) set_led_hsv(i, hsv);
SetLeds(p, lo, hi, hsv) ==
  [p EXCEPT !.led = [i \in DOMAIN p.led |->
                       IF lo <= i /\ i <= hi THEN set_led_hsv(p, i, hsv).led[i]
                       ELSE p.led[i]]]

\* for (i = led_min; i < led_max && i < 36; i++) with the finger colours
SetFingers(p, led_min, led_max) ==
  [p EXCEPT !.led = [i \in DOMAIN p.led |->
                       IF led_min <= i /\ i < led_max /\ i < 36
                       THEN set_led_hsv(p, i, FINGER_COLORS[FINGER_MAP[i]]).led[i]
                       ELSE p.led[i]]]

\* for (i = led_min; i < led_max && i < 36; i++) set_led_hsv(i, YXA_WHITE);
SetWhite(p, led_min, led_max) ==
  [p EXCEPT !.led = [i \in DOMAIN p.led |->
                       IF led_min <= i /\ i < led_max /\ i < 36
                       THEN set_led_hsv(p, i, YXA_WHITE).led[i]
                       ELSE p.led[i]]]

\* The statements of each case of switch (layer), in the order of the source,
\* each as << first LED, last LED, colour >>.
LayerHighlights(layer) ==
  IF layer = 3
  THEN << << 0, 4, YXA_ORANGE >>, << 10, 14, YXA_ORANGE >>,
          << 18, 22, YXA_ORANGE >>, << 28, 32, YXA_ORANGE >>,
          << 15, 17, YXA_PURPLE >>, << 33, 35, YXA_PURPLE >>,
          << 5, 9, YXA_WHITE >>, << 23, 27, YXA_WHITE >> >>
  ELSE IF layer = 4
  THEN << << 5, 9, YXA_WHITE >>, << 23, 27, YXA_CYAN >>,
          << 28, 32, YXA_BLUE >>, << 18, 22, YXA_ORANGE >>,
          << 33, 35, YXA_GREEN >> >>
  ELSE IF layer = 5
  THEN << << 5, 9, YXA_WHITE >>, << 23, 27, YXA_GREEN >>,
          << 28, 32, YXA_CYAN >>, << 18, 22, YXA_ORANGE >>,
          << 33, 35, YXA_PURPLE >> >>
  ELSE IF layer = 6
  THEN << << 5, 9, YXA_WHITE >>, << 18, 22, YXA_CYAN >>,
          << 23, 27, YXA_PURPLE >>, << 33, 35, YXA_PURPLE >> >>
  ELSE IF layer = 7
  THEN << << 0, 4, YXA_YELLOW >>, << 5, 9, YXA_YELLOW >>,
          << 10, 14, YXA_YELLOW >>, << 15, 17, YXA_YELLOW >>,
          << 23, 27, YXA_WHITE >> >>
  ELSE IF layer = 8
  THEN << << 0, 4, YXA_RED >>, << 5, 9, YXA_RED >>,
          << 10, 14, YXA_RED >>, << 15, 17, YXA_RED >>,
          << 23, 27, YXA_WHITE >> >>
  ELSE IF layer = 9
  THEN << << 0, 4, YXA_BLUE >>, << 5, 9, YXA_BLUE >>,
          << 10, 14, YXA_BLUE >>, << 15, 17, YXA_CYAN >>,
          << 23, 27, YXA_WHITE >> >>
  ELSE << >>

\* Only the first statement of the case is run.
SetHighlightsOne(p, runs) ==
  IF runs = << >> THEN p
  ELSE SetLeds(p, Head(runs)[1], Head(runs)[2], Head(runs)[3])

RECURSIVE SetHighlights(_, _)
SetHighlights(p, runs) ==
  IF runs = << >> THEN p
  ELSE SetHighlights(SetLeds(p, Head(runs)[1], Head(runs)[2], Head(runs)[3]),
                     Tail(runs))

\* Only layer 0 counts as a base layer, as in firmware/keymap.c.
rgb_matrix_indicators_advanced_user_base0(p, led_min, led_max) ==
  LET layer == get_effective_layer(p)
  IN  IF layer = 0 THEN SetFingers(p, led_min, led_max)
      ELSE SetHighlights(SetWhite(p, led_min, led_max), LayerHighlights(layer))

rgb_matrix_indicators_advanced_user(p, led_min, led_max) ==
  LET layer == get_effective_layer(p)
  IN  IF layer <= 2 THEN SetFingers(p, led_min, led_max)
      ELSE SetHighlights(SetWhite(p, led_min, led_max), LayerHighlights(layer))

(***************************************************************************)
(* The RGB layer indicator of firmware/keymap.c; the bak keymap has the    *)
(* same tables and the same function.                                      *)
(***************************************************************************)
FINGER_MAP_szr ==
  [i \in Leds |->
     << 0, 1, 2, 3, 3,  0, 1, 2, 3, 3,  0, 1, 2, 3, 3,  4, 4, 4,
        3, 3, 2, 1, 0,  3, 3, 2, 1, 0,  3, 3, 2, 1, 0,  4, 4, 4 >>[i + 1]]

FINGER_COLORS_szr ==
  [f \in 0 .. 4 |->
     << << 128, 255, 180 >>, << 213, 255, 180 >>, << 85, 255, 180 >>,
        << 43, 255, 180 >>, << 170, 255, 180 >> >>[f + 1]]

LAYER_COLORS ==
  [l \in 0 .. 7 |->
     << << 0, 0, 128 >>, << 128, 255, 200 >>, << 85, 255, 200 >>,
        << 213, 255, 200 >>, << 43, 255, 200 >>, << 0, 255, 200 >>,
        << 170, 255, 200 >>, << 21, 255, 200 >> >>[l + 1]]

\* The body of the loop for LED i: what the LED is after it.
IndicatorLed_szr(p, layer, i) ==
  IF layer = 0
  THEN (IF i < 36
        THEN rgb_matrix_set_color(p.led, i,
               hsv_to_rgb(FINGER_COLORS_szr[FINGER_MAP_szr[i]]))[i]
        ELSE p.led[i])
  ELSE IF layer < 8
  THEN rgb_matrix_set_color(p.led, i, hsv_to_rgb(LAYER_COLORS[layer]))[i]
  ELSE p.led[i]

\* for (i = led_min; i < led_max; i++): the iterations write different LEDs.
rgb_matrix_indicators_advanced_user_szr(p, led_min, led_max) ==
  LET layer == get_highest_layer(p.layer_state)
  IN  [p EXCEPT !.led = [i \in DOMAIN p.led |->
                           IF led_min <= i /\ i < led_max
                           THEN IndicatorLed_szr(p, layer, i)
                           ELSE p.led[i]]]

\* The LED ranges the RGB matrix task passes: each half, all LEDs, and a
\* range that ends after the last LED.
LedRanges == {<< 0, 18 >>, << 18, 36 >>, << 0, 36 >>, << 18, 40 >>}

\* One run of the indicator callback.
Paint(led_min, led_max) ==
  /\ boot = "none"
  /\ Install(rgb_matrix_indicators_advanced_user(State, led_min, led_max))

(***************************************************************************)
(* SpecRgb: the layer keys of the yxa keymap, one at a time, and the       *)
(* indicator.  Keys 31, 34 and 35 are the thumb keys LT(U_NAV, KC_SPC),   *)
(* LT(U_NUM, KC_BSPC) and LT(U_FUN, KC_DEL).                               *)
(***************************************************************************)
RgbKeys == {31, 34, 35}
InitRgb == InitWith({"yxa"}, {c \in BuildCfgs : c.permissive_hold})
PressRgb == \E k \in RgbKeys : down = {} /\ KeyPress(k)
ReleaseRgb == \E k \in RgbKeys : KeyRelease(k)
Indicators == \E r \in LedRanges : Paint(r[1], r[2])
NextRgb == PressRgb \/ ReleaseRgb \/ Tick \/ Indicators
SpecRgb == InitRgb /\ [][NextRgb]_vars

(***************************************************************************)
(* Vocabulary of the properties.                                           *)
(***************************************************************************)
PressOf(k, e)   == [key |-> k, pressed |-> TRUE,  eff |-> e]
ReleaseOf(k, e) == [key |-> k, pressed |-> FALSE, eff |-> e]

\* The frames with type tag t among frames, in order.
FramesOf(frames, t) == SelectSeq(frames, LAMBDA f : f[0] = t)

\* A state frame: type tag t, value v, zero padding.
StateFrame(t, v) == [ZeroFrame EXCEPT ![0] = t, ![1] = v]

\* What key k has emitted and not yet released, by its arbitration state.
Outstanding(keyState) ==
  IF keyState.s \in {"Tapped", "Held", "Resolved"} THEN keyState.eff ELSE NoEff

\* The reports of one step are consistent with what the keys had outstanding
\* before (out) and have outstanding after (final): a key presses only while
\* it has nothing outstanding, and releases exactly what it has outstanding.
RECURSIVE Symmetric(_, _, _)
Symmetric(out, log, final) ==
  IF log = << >> THEN out = final
  ELSE LET r == Head(log)
       IN  IF r.pressed
           THEN /\ out[r.key] = NoEff
                /\ r.eff # NoEff
                /\ Symmetric([out EXCEPT ![r.key] = r.eff], Tail(log), final)
           ELSE /\ out[r.key] = r.eff
                /\ r.eff # NoEff
                /\ Symmetric([out EXCEPT ![r.key] = NoEff], Tail(log), final)

\* The layers of a layer mask.
LayersOf(mask) == {i \in 0 .. MAX_LAYER - 1 : BitSet(mask, i)}

\* The highest number of a non-empty set of layers.
HighestOf(S) == CHOOSE x \in S : \A y \in S : y <= x

\* The effective layer by its definition: the highest layer among the
\* momentary layers and the default layer.
EffectiveLayer == HighestOf(LayersOf(layer_state) \cup LayersOf(default_layer_state))

(***************************************************************************)
(* C1  Press/release symmetry.                                             *)
(***************************************************************************)
\* C1: in every step the reports are symmetric per physical key: a release
\* carries exactly the effect the key's press emitted, whatever the layers and
\* the default layer have become in between, and a key presses only when it
\* has nothing outstanding, so presses and releases of a key are equal in
\* number once it is up; and when all keys are up no modifier bit and no
\* momentary layer bit is set.
C1_PressReleaseSymmetry ==
  [][/\ Symmetric([k \in ModelKeys |-> Outstanding(ks[k])], hid',
                  [k \in ModelKeys |-> Outstanding(ks'[k])])
     /\ (down' = {} =>
           /\ mods' = 0
           /\ layer_state' = 0
           /\ \A k \in ModelKeys : Outstanding(ks'[k]) = NoEff)]_vars

\* Key 13 was pressed as KC_T on BASE, the default layer became EXTRA while
\* it was down (there the key is LSFT_T(KC_F)), and its release is KC_T.
C1_Witness ==
  /\ hid = << ReleaseOf(13, KeyEff("KC_T")) >>
  /\ default_layer_state = Pow2(U_EXTRA)
  /\ down = {}

(***************************************************************************)
(* C2  Tap and hold by timeout of a mod-tap key.                           *)
(***************************************************************************)
\* Key k is a Pending mod-tap key and no other key event has followed its
\* press.
ModTapAlone(k) == pend = k /\ buf = << >> /\ ks[k].eff.kind = "ModTap"

\* C2: a mod-tap key with no other key event after its press is resolved as
\* tap when it is released before TAPPING_TERM: press and release of the tap
\* keycode are emitted, the modifiers do not change and no MODIFIER_STATE
\* frame is sent.  It stays undecided while the term has not elapsed, and it is
\* resolved as hold when the term elapses with the key down: the modifier is
\* set and one MODIFIER_STATE frame carries it.  While it is held no
\* MODIFIER_STATE frame is sent, and at its release the modifier is cleared
\* and one MODIFIER_STATE frame carries the modifiers without it.
C2_TapOrHoldByTerm ==
  [][\A k \in ModelKeys :
       LET a == ks[k].eff
       IN  /\ (ModTapAlone(k) /\ k \notin down') =>
                /\ age[k] < TAPPING_TERM
                /\ hid' = << PressOf(k, KeyEff(a.kc)), ReleaseOf(k, KeyEff(a.kc)) >>
                /\ ks'[k].s = "Idle"
                /\ mods' = mods
                /\ FramesOf(sent', MSG_MODIFIER_STATE) = << >>
           /\ (ModTapAlone(k) /\ burst' = 0 /\ age[k] + TickMs < TAPPING_TERM) =>
                /\ pend' = k
                /\ hid' = << >>
                /\ mods' = mods
                /\ FramesOf(sent', MSG_MODIFIER_STATE) = << >>
           /\ (ModTapAlone(k) /\ burst' = 0 /\ age[k] + TickMs >= TAPPING_TERM) =>
                /\ ks'[k] = [s |-> "Held", eff |-> ModEff(a.arg), quick |-> FALSE]
                /\ hid' = << PressOf(k, ModEff(a.arg)) >>
                /\ mods' = BitOr(mods, a.arg)
                /\ (mods = 0 =>
                      FramesOf(sent', MSG_MODIFIER_STATE)
                        = << StateFrame(MSG_MODIFIER_STATE, a.arg) >>)
           /\ (ks[k].s = "Held" /\ a.kind = "Mod" /\ k \in down') =>
                /\ ks'[k] = ks[k]
                /\ mods' = mods
                /\ FramesOf(sent', MSG_MODIFIER_STATE) = << >>
           /\ (ks[k].s = "Held" /\ a.kind = "Mod" /\ k \notin down') =>
                /\ hid' = << ReleaseOf(k, a) >>
                /\ mods' = BitAndNot(mods, a.arg)
                /\ FramesOf(sent', MSG_MODIFIER_STATE)
                     = << StateFrame(MSG_MODIFIER_STATE, mods') >>]_vars

\* The term has just elapsed with only LSFT_T(KC_T) down: shift is held and
\* one MODIFIER_STATE frame with 0x02 is sent.
C2_Witness ==
  /\ down = {13}
  /\ burst = 0
  /\ hid = << PressOf(13, ModEff(MOD_LSFT)) >>
  /\ mods = 2
  /\ FramesOf(sent, MSG_MODIFIER_STATE) = << StateFrame(MSG_MODIFIER_STATE, 2) >>

(***************************************************************************)
(* C3  Permissive hold.                                                    *)
(***************************************************************************)
\* The reports of key k in log, in order.
ReportsOf(log, k) == SelectSeq(log, LAMBDA r : r.key = k)

\* The press of key b is logged behind the Pending key.
Logged(b) == \E i \in 1 .. Len(buf) : buf[i].key = b /\ buf[i].pressed

\* C3: with permissive hold enabled, when a key b whose press is logged behind
\* the Pending key k is released, k is resolved as hold in that step: the
\* first report is the hold effect of k, the reports of b come after it and
\* end with its press and then its release, and k does not emit its tap
\* keycode.  The hold
\* effect stays until k is released, and k's release emits nothing but the end
\* of the hold effect.
C3_PermissiveHold ==
  [][\A k \in ModelKeys :
       /\ \A b \in ModelKeys \ {k} :
            (/\ cfg.permissive_hold
             /\ pend = k
             /\ Logged(b)
             /\ b \in down
             /\ b \notin down') =>
               LET hold == HoldEffect(ks[k].eff)
                   rb   == ReportsOf(hid', b)
               IN  /\ Len(hid') >= 3
                   /\ hid'[1] = PressOf(k, hold)
                   /\ ReportsOf(hid', k) = << PressOf(k, hold) >>
                   /\ Len(rb) >= 2
                   /\ rb[Len(rb) - 1].pressed
                   /\ rb[Len(rb)] = ReleaseOf(b, rb[Len(rb) - 1].eff)
                   /\ ks'[k] = [s |-> "Held", eff |-> hold, quick |-> FALSE]
       /\ (ks[k].s = "Held" /\ k \in down') =>
            /\ ks'[k] = ks[k]
            /\ ReportsOf(hid', k) = << >>
       /\ (ks[k].s = "Held" /\ k \notin down') =>
            ReportsOf(hid', k) = << ReleaseOf(k, ks[k].eff) >>]_vars

\* Shift+m as one chord: with permissive hold as the only option, the release
\* of KC_M resolves LSFT_T(KC_T) as hold, and shift comes before m.
C3_Witness ==
  /\ cfg.permissive_hold
  /\ ~cfg.hold_on_other_key_press
  /\ burst > 0
  /\ down = {13}
  /\ hid = << PressOf(13, ModEff(MOD_LSFT)), PressOf(15, KeyEff("KC_M")),
              ReleaseOf(15, KeyEff("KC_M")) >>

(***************************************************************************)
(* C4  Bilateral gate of hold on other key press.                          *)
(***************************************************************************)
\* The mod-tap key k is Pending in a build of the repository: config.h
\* (lines 40-42) enables hold on other key press per key "for bilateral
\* combinations (mods only trigger with opposite hand)".
Gated(k) == pend = k /\ cfg \in BuildCfgs /\ ks[k].eff.kind = "ModTap"

\* Behind the Pending key k, key c of the same half was pressed and then
\* released, and k is released now: the reports are the tap of k and the tap
\* of c, k's press first.
TapThenTap(k, c, log) ==
  LET tap == TapEffect(ks[k].eff)
  IN  /\ Len(log) = 4
      /\ log[1] = PressOf(k, tap)
      /\ ReportsOf(log, k) = << PressOf(k, tap), ReleaseOf(k, tap) >>
      /\ Len(ReportsOf(log, c)) = 2
      /\ ReportsOf(log, c)[1].pressed
      /\ ReportsOf(log, c)[1].eff.kind = "Key"
      /\ ReportsOf(log, c)[2]
           = ReleaseOf(c, ReportsOf(log, c)[1].eff)

\* Under the gate a press on the same half leaves k Pending and a press on the
\* opposite half resolves k as hold at once.
GateOnPress(k, c) ==
  (Gated(k) /\ c \notin down /\ c \in down' /\ Len(buf) < MAX_OVERLAPS) =>
     IF Hand(c) = Hand(k)
     THEN pend' = k /\ hid' = << >> /\ mods' = mods /\ layer_state' = layer_state
     ELSE /\ ks'[k] = [s |-> "Held", eff |-> HoldEffect(ks[k].eff), quick |-> FALSE]
          /\ Len(hid') >= 1
          /\ hid'[1] = PressOf(k, HoldEffect(ks[k].eff))

\* C4: in the builds of the repository, for a Pending mod-tap key k: a press
\* on the same half leaves k Pending and a press on the opposite half
\* resolves k as hold at once; the release of the same-half key c pressed
\* behind k leaves k Pending, and k's release then gives the tap of k
\* followed by the tap of c.
C4_BilateralGate ==
  [][\A k \in ModelKeys : \A c \in ModelKeys \ {k} :
       /\ GateOnPress(k, c)
       /\ (/\ Gated(k)
           /\ Hand(c) = Hand(k)
           /\ buf = << [key |-> c, pressed |-> TRUE] >>
           /\ c \notin down') =>
              pend' = k /\ hid' = << >>
       /\ (/\ Gated(k)
           /\ Hand(c) = Hand(k)
           /\ buf = << [key |-> c, pressed |-> TRUE], [key |-> c, pressed |-> FALSE] >>
           /\ k \notin down') =>
              TapThenTap(k, c, hid')]_vars

\* C4, what the builds do: no keymap defines get_hold_on_other_key_press, so
\* no press of another key, on either half, resolves the Pending key: it
\* stays Pending and nothing is reported.  The release of a key pressed
\* behind it resolves it as hold when permissive hold is on, whatever the
\* half, and leaves it Pending otherwise; its own release after the press
\* and release of the other key gives the tap of k followed by the tap of c.
C4_NoGateInBuilds ==
  [][\A k \in ModelKeys : \A c \in ModelKeys \ {k} :
       /\ (Gated(k) /\ c \notin down /\ c \in down' /\ Len(buf) < MAX_OVERLAPS) =>
            /\ pend' = k
            /\ ks'[k].s = "Pending"
            /\ hid' = << >>
            /\ mods' = mods
            /\ layer_state' = layer_state
       /\ (/\ Gated(k)
           /\ buf = << [key |-> c, pressed |-> TRUE] >>
           /\ c \notin down') =>
              IF cfg.permissive_hold
              THEN /\ ks'[k].s = "Held"
                   /\ hid'[1] = PressOf(k, HoldEffect(ks[k].eff))
              ELSE pend' = k /\ hid' = << >>
       /\ (/\ Gated(k)
           /\ buf = << [key |-> c, pressed |-> TRUE], [key |-> c, pressed |-> FALSE] >>
           /\ k \notin down') =>
              TapThenTap(k, c, hid')]_vars

\* LSFT_T(KC_T) of the left half is down and KC_M of the right half has been
\* pressed behind it: the key is still Pending, shift is not set and nothing
\* has been reported.
C4_Witness ==
  /\ cfg \in BuildCfgs
  /\ pend = 13
  /\ ks[13].s = "Pending"
  /\ down = {13, 15}
  /\ buf = << [key |-> 15, pressed |-> TRUE] >>
  /\ mods = 0
  /\ hid = << >>
(***************************************************************************)
(* C5  Quick-tap.                                                          *)
(***************************************************************************)
\* C5: a dual-role key pressed less than QUICK_TAP_TERM after its own release
\* is resolved as tap in the step of its press; while it stays down no step
\* (a press or release of another key, time passing) changes its resolution
\* or emits anything for it, and its release releases the tap keycode.
C5_QuickTap ==
  [][\A k \in ModelKeys :
       LET a == ResolveKey(State, k)
       IN  /\ (/\ pend = NoKey
               /\ k \notin down
               /\ k \in down'
               /\ IsDualRole(a)
               /\ relAge[k] < QUICK_TAP_TERM) =>
                  /\ ks'[k] = [s |-> "Tapped", eff |-> TapEffect(a), quick |-> TRUE]
                  /\ pend' = NoKey
                  /\ hid' = << PressOf(k, TapEffect(a)) >>
           /\ (ks[k].quick /\ k \in down') =>
                  /\ ks'[k] = ks[k]
                  /\ ReportsOf(hid', k) = << >>
           /\ (ks[k].quick /\ k \notin down') =>
                  /\ ks[k].s = "Tapped"
                  /\ ReportsOf(hid', k) = << ReleaseOf(k, ks[k].eff) >>]_vars

\* LSFT_T(KC_T) was pressed again at once, KC_M was pressed after it and the
\* tapping term has elapsed: the key is still the tap of KC_T, shift is off.
C5_Witness ==
  /\ ks[13] = [s |-> "Tapped", eff |-> KeyEff("KC_T"), quick |-> TRUE]
  /\ age[13] = TAPPING_TERM
  /\ down = {13, 15}
  /\ mods = 0

(***************************************************************************)
(* C6  Effective layer.                                                    *)
(***************************************************************************)
\* The layer the publisher of the build reads.
PublisherLayer ==
  IF build = "yxa" THEN get_effective_layer(State)
  ELSE get_highest_layer(layer_state)

\* The layer the RGB indicator of the build reads.
IndicatorLayer ==
  IF build = "yxa" THEN rgb_matrix_indicators_layer(State)
  ELSE IF build = "szr" THEN rgb_matrix_indicators_layer_szr(State)
  ELSE rgb_matrix_indicators_layer_bak(State)

\* C6: in every reachable state the layer the publisher reads and the layer
\* the RGB indicator reads are the highest layer among the momentary layers
\* and the default layer, and byte 1 of every LAYER_STATE and FULL_STATE frame
\* of the step that led to the state carries that layer.
C6_EffectiveLayer ==
  /\ PublisherLayer = EffectiveLayer
  /\ IndicatorLayer = EffectiveLayer
  /\ \A i \in 1 .. Len(sent) :
       sent[i][0] \in {MSG_LAYER_STATE, MSG_FULL_STATE} => sent[i][1] = EffectiveLayer

\* The default layer is EXTRA, no momentary layer is held, and the layer
\* published is EXTRA.
C6_Witness ==
  /\ build = "yxa"
  /\ default_layer_state = Pow2(U_EXTRA)
  /\ layer_state = 0
  /\ FramesOf(sent, MSG_LAYER_STATE) = << StateFrame(MSG_LAYER_STATE, U_EXTRA) >>

(***************************************************************************)
(* C7  Layer fall-through.                                                 *)
(***************************************************************************)
\* The active layers whose entry at position p is not Transparent.
Opaque(p) ==
  {i \in LayersOf(layer_state) \cup LayersOf(default_layer_state) :
     i < NumLayers(build) /\ KeymapOf(build)[i + 1][p + 1] # KC_TRNS}

\* The bak keymap as it would be with layer l as the only active layer and
\* no key in arbitration.
OnlyLayer(l) ==
  [State EXCEPT !.layer_state = 0, !.default_layer_state = Pow2(l),
                !.pend = NoKey, !.buf = << >>]

\* C7: in every reachable state, resolving the position of a key gives the entry of the
\* highest active layer whose entry there is not Transparent, and Transparent
\* when there is none.  A keymap whose only active layer is Transparent at a
\* position (layer 8 of the bak keymap) drops the press of an Idle key
\* and then its release: no output, no state change.
C7_LayerFallthrough ==
  /\ \A p \in ModelKeys :
       ResolveKey(State, p) =
         IF Opaque(p) = {} THEN KC_TRNS
         ELSE KeymapOf(build)[HighestOf(Opaque(p)) + 1][p + 1]
  /\ \A l \in 0 .. NumLayers(build) - 1 : \A k \in ModelKeys :
       (ks[k].s = "Idle" /\ KeymapOf(build)[l + 1][k + 1] = KC_TRNS) =>
         LET dropped == ProcessEvent(OnlyLayer(l), [key |-> k, pressed |-> TRUE])
         IN  /\ dropped = OnlyLayer(l)
             /\ ProcessEvent(dropped, [key |-> k, pressed |-> FALSE]) = OnlyLayer(l)

\* firmware/keymap.c: layer 3 is the only momentary layer (its key MO(3) on
\* layer 1 is down, the layer-1 key was released); key 34 is Transparent on
\* layer 3 and its press is resolved on layer 0 as LT(1, KC_ENT).
C7_Witness ==
  /\ build = "szr"
  /\ layer_state = Pow2(3)
  /\ pend = 34
  /\ ks[34].eff = LT(1, "KC_ENT")

(***************************************************************************)
(* C8  The default layer.                                                  *)
(***************************************************************************)
BaseLayers == {U_BASE, U_EXTRA, U_TAP}

\* The ids of the layer-select tap dances.
LayerSelectIds ==
  {U_TD_U_BASE, U_TD_U_EXTRA, U_TD_U_TAP, U_TD_U_BUTTON, U_TD_U_NAV,
   U_TD_U_MOUSE, U_TD_U_MEDIA, U_TD_U_NUM, U_TD_U_SYM, U_TD_U_FUN}

\* The base layer the handler of a layer-select tap dance sets: its own for
\* EXTRA and TAP, BASE for BASE and for the ids of the layers that are no base
\* layers.
SelectedBase(id) ==
  IF id = U_TD_U_EXTRA THEN U_EXTRA
  ELSE IF id = U_TD_U_TAP THEN U_TAP
  ELSE U_BASE

\* The default layer mask after the tap dances of log have finished, in
\* order, starting from the mask d.
RECURSIVE DefaultAfter(_, _)
DefaultAfter(d, log) ==
  IF log = << >> THEN d
  ELSE DefaultAfter(IF Head(log).id \in LayerSelectIds /\ Head(log).count = 2
                    THEN Pow2(SelectedBase(Head(log).id))
                    ELSE d,
                    Tail(log))

\* C8: before and after every step the default layer mask is exactly one of
\* the base layers BASE, EXTRA, TAP.  A step changes it only by the tap dances
\* that finish in the step: a layer-select tap dance that finishes with count
\* 2 sets the base layer of its handler, and a tap dance that finishes with
\* any other count leaves it as it is.  The handler of every layer-select id
\* does so for every count.
C8_DefaultLayer ==
  [][/\ \E l \in BaseLayers : default_layer_state = Pow2(l)
     /\ \E l \in BaseLayers : default_layer_state' = Pow2(l)
     /\ default_layer_state' = DefaultAfter(default_layer_state, danced')
     /\ \A id \in LayerSelectIds : \A count \in 0 .. MaxTaps :
          tap_dance_actions(State, id, count).default_layer_state
            = IF count = 2 THEN Pow2(SelectedBase(id)) ELSE default_layer_state]_vars

\* With EXTRA as the default layer, TD(U_TD_U_NAV) has finished with two
\* taps: the default layer is BASE again.
C8_Witness ==
  /\ danced = << [id |-> U_TD_U_NAV, count |-> 2] >>
  /\ default_layer_state = Pow2(U_BASE)
  /\ ks[2].s = "Resolved"
  /\ ks[2].eff = KeyEff("KC_E")

(***************************************************************************)
(* C9  Bootloader entry.                                                   *)
(***************************************************************************)
\* The step enters the bootloader.
EntersBootloader == boot = "none" /\ boot' # "none"

\* The last tap dance that finished in the step is the boot tap dance with
\* two taps, and its handler is what reset the keyboard.
ByBootDance ==
  /\ boot' = "u_td_fn_boot"
  /\ danced' # << >>
  /\ danced'[Len(danced')] = [id |-> U_TD_BOOT, count |-> 2]

\* C9: in each of the three keymaps, a step enters the bootloader only by the
\* boot tap dance finishing with exactly two taps.
C9_BootOnlyByTapDance ==
  [][EntersBootloader => ByBootDance]_vars

\* C9 for the yxa keymap alone: a step enters the bootloader only by the boot
\* tap dance finishing with exactly two taps.
C9_YxaBootOnlyByTapDance ==
  [][(build = "yxa" /\ EntersBootloader) => ByBootDance]_vars

\* The yxa keymap has entered the bootloader by its boot tap dance.
C9_Witness ==
  /\ build = "yxa"
  /\ boot = "u_td_fn_boot"
  /\ danced = << [id |-> U_TD_BOOT, count |-> 2] >>

(***************************************************************************)
(* C10  Change publication of the three channels.                          *)
(***************************************************************************)
\* One channel in one step of the main loop: a frame with tag t is sent when
\* and only when the current value differs from the cached one; it is one
\* frame, it carries the current value, and the cache becomes that value.
\* value is what byte 1 carries for the current value.
Publishes(frames, t, differs, value, cacheUpdated, cacheKept) ==
  IF differs
  THEN FramesOf(frames, t) = << StateFrame(t, value) >> /\ cacheUpdated
  ELSE FramesOf(frames, t) = << >> /\ cacheKept

\* C10: every step of the main loop ends with housekeeping, and for each of
\* the effective layer, the caps-word flag and the modifier bits it sends a
\* frame exactly when the value differs from the cached last-published value:
\* then exactly one frame with the current value, and the cache becomes the
\* current value; otherwise no frame, and the cache stays.  So a frame never
\* repeats the value of the frame before it on its channel.
C10_PublishOnChange ==
  [][/\ Publishes(sent', MSG_LAYER_STATE,
                  EffectiveLayer' # last_broadcast_layer,
                  EffectiveLayer',
                  last_broadcast_layer' = EffectiveLayer',
                  last_broadcast_layer' = last_broadcast_layer)
     /\ Publishes(sent', MSG_CAPS_WORD_STATE,
                  caps_word' # last_caps_word_state,
                  IF caps_word' THEN 1 ELSE 0,
                  last_caps_word_state' = caps_word',
                  last_caps_word_state' = last_caps_word_state)
     /\ Publishes(sent', MSG_MODIFIER_STATE,
                  BitOr(mods', oneshot_mods') # last_modifier_state,
                  BitOr(mods', oneshot_mods'),
                  last_modifier_state' = BitOr(mods', oneshot_mods'),
                  last_modifier_state' = last_modifier_state)]_vars

\* On NAV, CW_TOGG has switched caps word on: one CAPS_WORD_STATE frame with
\* 1, and no frame on the two channels that did not change.
C10_Witness ==
  /\ caps_word
  /\ layer_state = Pow2(U_NAV)
  /\ FramesOf(sent, MSG_CAPS_WORD_STATE) = << StateFrame(MSG_CAPS_WORD_STATE, 1) >>
  /\ FramesOf(sent, MSG_LAYER_STATE) = << >>
  /\ FramesOf(sent, MSG_MODIFIER_STATE) = << >>

(***************************************************************************)
(* C11  Deduplication of the published key events.                         *)
(***************************************************************************)
\* The (type, row, col) tuples of a KEY_BATCH frame, in order.
EventsOf(f) ==
  [i \in 1 .. f[1] |->
     [type |-> f[2 + (i - 1) * 3], row |-> f[2 + (i - 1) * 3 + 1],
      col |-> f[2 + (i - 1) * 3 + 2]]]

\* The key events of the KEY_BATCH frames among frames, in order.
RECURSIVE Published(_)
Published(frames) ==
  IF frames = << >> THEN << >>
  ELSE (IF Head(frames)[0] = MSG_KEY_BATCH THEN EventsOf(Head(frames))
        ELSE << >>) \o Published(Tail(frames))

\* The events of the key at (row, col) among events, in order.
EventsOfKey(events, row, col) ==
  SelectSeq(events, LAMBDA e : e.row = row /\ e.col = col)

\* No two successive events are of the same type.
Alternating(events) ==
  \A i \in 1 .. Len(events) - 1 : events[i].type # events[i + 1].type

\* C11: the key events published for each physical key alternate between
\* press and release: among the frames one step sends, no key has two
\* presses in a row or two releases in a row.
C11_Alternation ==
  \A k \in ModelKeys :
    Alternating(EventsOfKey(Published(sent), KeyRow(k), KeyCol(k)))

\* C11, what the publisher does instead: no record is suppressed.  Every
\* record handed to process_record_user becomes the last event of the
\* pending batch, whatever was published for its key before.
C11_NoRecordSuppressed ==
  [][burst' = burst + 1 =>
       /\ batch_count' = IF batch_count = MAX_BATCH_EVENTS THEN 1
                         ELSE batch_count + 1
       /\ event_batch'[(batch_count' - 1) * 3] \in {MSG_KEY_PRESS, MSG_KEY_RELEASE}
       /\ event_batch'[(batch_count' - 1) * 3 + 1] = KeyRow(13)
       /\ event_batch'[(batch_count' - 1) * 3 + 2] = KeyCol(13)]_vars

\* The press record of key 13 was handed over twice; one KEY_BATCH frame
\* carries two presses of the key.
C11_Witness ==
  /\ Len(sent) = 1
  /\ sent[1][0] = MSG_KEY_BATCH
  /\ EventsOf(sent[1])
       = << [type |-> MSG_KEY_PRESS, row |-> KeyRow(13), col |-> KeyCol(13)],
            [type |-> MSG_KEY_PRESS, row |-> KeyRow(13), col |-> KeyCol(13)] >>

(***************************************************************************)
(* C12  Key presses are flushed at once.                                   *)
(***************************************************************************)
\* The types of the events pending in the batch.
PendingTypes == {event_batch[i * 3] : i \in 0 .. batch_count - 1}

\* Frame f is a KEY_BATCH frame that carries a press.
CarriesPress(f) ==
  f[0] = MSG_KEY_BATCH /\ \E i \in 1 .. f[1] : EventsOf(f)[i].type = MSG_KEY_PRESS

\* C12: every key press is sent at once in a KEY_BATCH frame of its own: when
\* a step is over no press is pending in the batch, and every KEY_BATCH frame
\* that carries a press has count 1.
C12_PressSentAtOnce ==
  /\ MSG_KEY_PRESS \notin PendingTypes
  /\ \A i \in 1 .. Len(sent) : CarriesPress(sent[i]) => sent[i][1] = 1

\* C12, what the publisher does instead: a key record, press or release, only
\* joins the batch; the step of a key event sends no KEY_BATCH frame while
\* the batch is not full, and the pending events, presses included, are sent
\* together by the housekeeping run after BATCH_TIMEOUT_MS.
C12_PressWaitsInBatch ==
  [][/\ (burst' = burst + 1 /\ batch_count < MAX_BATCH_EVENTS) =>
          /\ FramesOf(sent', MSG_KEY_BATCH) = << >>
          /\ batch_count' >= batch_count
     /\ (burst' = 0 /\ batch_count > 0 /\ hid' = << >>) =>
          /\ Len(FramesOf(sent', MSG_KEY_BATCH)) = 1
          /\ FramesOf(sent', MSG_KEY_BATCH)[1][1] = batch_count
          /\ batch_count' = 0]_vars

\* KC_G and KC_M were pressed one after the other before the clock moved: the
\* two presses are sent in one KEY_BATCH frame with count 2.
C12_Witness ==
  /\ down = {14, 15}
  /\ Len(sent) = 1
  /\ sent[1][0] = MSG_KEY_BATCH
  /\ EventsOf(sent[1])
       = << [type |-> MSG_KEY_PRESS, row |-> KeyRow(14), col |-> KeyCol(14)],
            [type |-> MSG_KEY_PRESS, row |-> KeyRow(15), col |-> KeyCol(15)] >>

(***************************************************************************)
(* C13  The batch is bounded by MAX_BATCH_EVENTS.                          *)
(***************************************************************************)
\* Frame f is the KEY_BATCH frame of the n events pending in the batch.
FrameOfPending(f, n) ==
  /\ f[0] = MSG_KEY_BATCH
  /\ f[1] = n
  /\ \A i \in 0 .. 3 * n - 1 : f[2 + i] = event_batch[i]

\* C13: the number of pending events stays between 0 and MAX_BATCH_EVENTS and
\* every KEY_BATCH frame has a count between 1 and MAX_BATCH_EVENTS.  A record
\* that arrives when MAX_BATCH_EVENTS events are pending first sends them as
\* one frame with that count and then is the first event of a new batch; fewer
\* pending events are not sent by a record.  MAX_BATCH_EVENTS events pending
\* when the timeout has passed are sent as one frame.
C13_BatchBounded ==
  [][/\ batch_count' \in 0 .. MAX_BATCH_EVENTS
     /\ \A i \in 1 .. Len(sent') :
          sent'[i][0] = MSG_KEY_BATCH => sent'[i][1] \in 1 .. MAX_BATCH_EVENTS
     /\ (burst' = burst + 1 /\ batch_count = MAX_BATCH_EVENTS) =>
          /\ Len(FramesOf(sent', MSG_KEY_BATCH)) = 1
          /\ FrameOfPending(sent'[1], MAX_BATCH_EVENTS)
          /\ batch_count' = 1
          /\ event_batch'[0] \in {MSG_KEY_PRESS, MSG_KEY_RELEASE}
     /\ (burst' = burst + 1 /\ batch_count < MAX_BATCH_EVENTS) =>
          /\ FramesOf(sent', MSG_KEY_BATCH) = << >>
          /\ batch_count' = batch_count + 1
          /\ \A i \in 0 .. 3 * batch_count - 1 : event_batch'[i] = event_batch[i]
     /\ (burst' = 0 /\ batch_count > 0) =>
          /\ Len(FramesOf(sent', MSG_KEY_BATCH)) = 1
          /\ FrameOfPending(FramesOf(sent', MSG_KEY_BATCH)[1], batch_count)
          /\ batch_count' = 0]_vars

\* Nine release records arrived with no clock step between them: the ninth
\* sent the first eight as one frame with count 8 and is alone in the batch.
C13_Witness ==
  /\ burst = 9
  /\ batch_count = 1
  /\ event_batch[0] = MSG_KEY_RELEASE
  /\ Len(sent) = 1
  /\ sent[1][0] = MSG_KEY_BATCH
  /\ sent[1][1] = 8
  /\ \A i \in 1 .. 8 : EventsOf(sent[1])[i].type = MSG_KEY_RELEASE

(***************************************************************************)
(* C14  The reply to REQUEST_STATE and HEARTBEAT.                          *)
(***************************************************************************)
\* The step handled a host frame with tag REQUEST_STATE or HEARTBEAT.
StateRequested ==
  received' # NoFrame /\ received'.tag \in {MSG_REQUEST_STATE, MSG_HEARTBEAT}

\* The FULL_STATE frame of the keyboard's values: tag, effective layer, caps
\* word, held modifiers united with the one-shot modifiers, zero.
FullStateFrame ==
  [ZeroFrame EXCEPT ![0] = MSG_FULL_STATE,
                    ![1] = EffectiveLayer,
                    ![2] = IF caps_word THEN 1 ELSE 0,
                    ![3] = BitOr(mods, oneshot_mods)]

\* C14: in each keymap, a step that handles REQUEST_STATE or HEARTBEAT sends
\* exactly one frame, the FULL_STATE frame of the values at the request.
C14_FullStateReply ==
  [][StateRequested => sent' = << FullStateFrame >>]_vars

\* C14 for the yxa keymap alone: a step that handles REQUEST_STATE or
\* HEARTBEAT sends exactly one frame, the FULL_STATE frame of the values at
\* the request, and reports the frame as handled.
C14_YxaFullStateReply ==
  [][(build = "yxa" /\ StateRequested) =>
        /\ sent' = << FullStateFrame >>
        /\ received'.handled]_vars

\* The yxa keymap answers a HEARTBEAT received while NAV is held.
C14_Witness ==
  /\ build = "yxa"
  /\ received = [tag |-> MSG_HEARTBEAT, handled |-> TRUE]
  /\ sent = << [ZeroFrame EXCEPT ![0] = MSG_FULL_STATE, ![1] = U_NAV] >>

(***************************************************************************)
(* C15  Host convergence.                                                  *)
(***************************************************************************)
\* The keyboard's effective layer, caps-word flag and modifier bitmask.
KeyboardView ==
  [layer |-> EffectiveLayer, caps |-> caps_word, mods |-> BitOr(mods, oneshot_mods)]

\* C15: whatever frames were dropped before, a step that answers HEARTBEAT
\* or REQUEST_STATE and whose reply the endpoint takes leaves the host's view
\* of layer, caps word and modifiers equal to the keyboard's values; and the
\* view stays equal as long as the keyboard's values do not change, whatever
\* is sent or dropped in between.
C15_HostConverges ==
  [][/\ (StateRequested /\ ok' = << TRUE >>) => host' = KeyboardView'
     /\ (host = KeyboardView /\ KeyboardView' = KeyboardView) => host' = host]_vars

\* The host has received the reply to a HEARTBEAT while NAV and shift are
\* held and caps word is on, and shows these values.
C15_Witness ==
  /\ received = [tag |-> MSG_HEARTBEAT, handled |-> TRUE]
  /\ ok = << TRUE >>
  /\ host = [layer |-> U_NAV, caps |-> TRUE, mods |-> MOD_LSFT]
  /\ host = KeyboardView

(***************************************************************************)
(* C16  A failed send is a dropped frame.                                  *)
(***************************************************************************)
\* C16: whether the endpoint takes the frames of a step or is busy, after
\* every loop iteration the three caches hold the current values and at most
\* MAX_BATCH_EVENTS events are pending; a KEY_BATCH frame leaves no event
\* pending, taken or not; and no frame is sent again: a frame on a channel
\* carries a value that differs from the cache, which a dropped frame has
\* updated like a frame that was taken.
C16_DroppedNotRetried ==
  [][received' = NoFrame =>
       /\ last_broadcast_layer' = EffectiveLayer'
       /\ last_caps_word_state' = caps_word'
       /\ last_modifier_state' = BitOr(mods', oneshot_mods')
       /\ batch_count' \in 0 .. MAX_BATCH_EVENTS
       /\ \A i \in 1 .. Len(sent') :
            /\ sent'[i][0] = MSG_KEY_BATCH => batch_count' = 0
            /\ sent'[i][0] = MSG_LAYER_STATE => sent'[i][1] # last_broadcast_layer
            /\ sent'[i][0] = MSG_CAPS_WORD_STATE =>
                 sent'[i][1] # (IF last_caps_word_state THEN 1 ELSE 0)
            /\ sent'[i][0] = MSG_MODIFIER_STATE => sent'[i][1] # last_modifier_state]_vars

\* Every LAYER_STATE frame so far was dropped (the host has no layer yet, the
\* cache holds NAV), and the publisher goes on: the press of shift is
\* published and the host receives it.
C16_Witness ==
  /\ host.layer = NO_LAYER_BROADCAST
  /\ last_broadcast_layer = U_NAV
  /\ sent = << StateFrame(MSG_MODIFIER_STATE, MOD_LSFT) >>
  /\ ok = << TRUE >>
  /\ host.mods = MOD_LSFT

(***************************************************************************)
(* C17  Host frames with an unknown tag.                                   *)
(***************************************************************************)
\* The state of the keyboard and of the publisher, without the logs of the
\* last step.
KeyboardVars ==
  << build, cfg, down, burst, ks, age, relAge, pend, buf, td, layer_state,
     default_layer_state, mods, oneshot_mods, caps_word, boot,
     last_broadcast_layer, last_caps_word_state, last_modifier_state,
     event_batch, batch_count, batch_elapsed, link, host, led >>

\* Tags that are neither REQUEST_STATE nor HEARTBEAT.
UnknownTags ==
  {MSG_LAYER_STATE, MSG_KEY_PRESS, MSG_KEY_RELEASE, MSG_CAPS_WORD_STATE,
   MSG_MODIFIER_STATE, MSG_FULL_STATE, MSG_KEY_BATCH, 255}

\* C17: a step that handles a host frame whose tag is neither REQUEST_STATE
\* nor HEARTBEAT sends no frame, reports the frame as not handled and changes
\* nothing; and the handler of the build does so for every such tag.
C17_UnknownTagIgnored ==
  [][(received' # NoFrame /\ received'.tag \notin {MSG_REQUEST_STATE, MSG_HEARTBEAT}) =>
        /\ sent' = << >>
        /\ ~received'.handled
        /\ UNCHANGED KeyboardVars
        /\ \A t \in UnknownTags :
             /\ HidReceive(State, t) = State
             /\ ~HidReceiveResult(build, t)]_vars

\* The yxa keymap has ignored a frame with tag 0x01 while NAV was held.
C17_Witness ==
  /\ build = "yxa"
  /\ received = [tag |-> MSG_LAYER_STATE, handled |-> FALSE]
  /\ layer_state = Pow2(U_NAV)
  /\ sent = << >>

(***************************************************************************)
(* C18  The sideband channel is observational only.                        *)
(***************************************************************************)
\* C18: in each keymap, a step that handles a host frame, whatever its tag,
\* leaves the default layer, the momentary layers, the modifiers, caps word,
\* the pending batch and the three caches unchanged.
C18_SidebandObservesOnly ==
  [][received' # NoFrame =>
       UNCHANGED << default_layer_state, layer_state, mods, oneshot_mods,
                    caps_word, event_batch, batch_count, batch_elapsed,
                    last_broadcast_layer, last_caps_word_state,
                    last_modifier_state >>]_vars

\* The yxa keymap answered REQUEST_STATE before its first housekeeping run:
\* the FULL_STATE frame carries layer 0 and the layer cache still holds the
\* value it has before the first broadcast.
C18_Witness ==
  /\ build = "yxa"
  /\ received = [tag |-> MSG_REQUEST_STATE, handled |-> TRUE]
  /\ sent = << [ZeroFrame EXCEPT ![0] = MSG_FULL_STATE] >>
  /\ last_broadcast_layer = NO_LAYER_BROADCAST

(***************************************************************************)
(* C19  The format of the frames the keyboard sends.                       *)
(***************************************************************************)
\* The closed set of tags from keyboard to host.
KeyboardTags ==
  {MSG_LAYER_STATE, MSG_KEY_PRESS, MSG_KEY_RELEASE, MSG_CAPS_WORD_STATE,
   MSG_MODIFIER_STATE, MSG_FULL_STATE, MSG_KEY_BATCH}

\* The first index after the payload of frame f.
PayloadEnd(f) ==
  IF f[0] = MSG_KEY_BATCH THEN 2 + 3 * f[1]
  ELSE IF f[0] = MSG_FULL_STATE THEN 4
  ELSE 2

WellFormed(f) ==
  /\ DOMAIN f = 0 .. RAW_EPSIZE - 1
  /\ \A i \in DOMAIN f : f[i] \in 0 .. 255
  /\ f[0] \in KeyboardTags
  /\ PayloadEnd(f) <= RAW_EPSIZE
  /\ \A i \in PayloadEnd(f) .. RAW_EPSIZE - 1 : f[i] = 0
  /\ f[0] = MSG_KEY_BATCH =>
       /\ f[1] \in 1 .. MAX_BATCH_EVENTS
       /\ \A j \in 0 .. f[1] - 1 : f[2 + 3 * j] \in {MSG_KEY_PRESS, MSG_KEY_RELEASE}

\* C19: every frame sent has RAW_EPSIZE bytes, a tag of the keyboard-to-host
\* set and zeros after its payload; a KEY_BATCH frame with count n carries n
\* tuples whose type is KEY_PRESS or KEY_RELEASE, and zeros after them.
C19_FramesWellFormed ==
  \A i \in 1 .. Len(sent) : WellFormed(sent[i])

\* A KEY_BATCH frame with a press and a release has been sent.
C19_Witness ==
  \E i \in 1 .. Len(sent) :
    /\ sent[i][0] = MSG_KEY_BATCH
    /\ sent[i][1] >= 2
    /\ \E j, k \in 0 .. sent[i][1] - 1 :
         /\ sent[i][2 + 3 * j] = MSG_KEY_PRESS
         /\ sent[i][2 + 3 * k] = MSG_KEY_RELEASE
    /\ sent[i][2 + 3 * sent[i][1]] = 0

(***************************************************************************)
(* C20  The RGB indicator is a function of the effective layer.            *)
(***************************************************************************)
\* The current state with effective layer l reached another way, and with
\* other modifiers, caps word, batch and caches.
OtherStateOnLayer(l) ==
  [State EXCEPT !.layer_state = Pow2(l),
                !.default_layer_state = 0,
                !.mods = 255 - mods,
                !.oneshot_mods = 255 - oneshot_mods,
                !.caps_word = ~caps_word,
                !.batch_count = MAX_BATCH_EVENTS - batch_count,
                !.last_broadcast_layer = l,
                !.last_caps_word_state = ~last_caps_word_state,
                !.last_modifier_state = 255 - last_modifier_state]

\* Painting range r in state s twice gives the buffer of painting it once,
\* and painting changes the buffer only.
PaintsOnce(s, r) ==
  \A once \in {rgb_matrix_indicators_advanced_user(s, r[1], r[2])} :
    \A twice \in {rgb_matrix_indicators_advanced_user(once, r[1], r[2])} :
      /\ twice.led = once.led
      /\ [once EXCEPT !.led = s.led] = s

\* C20: in every state and for every LED range, painting twice gives the
\* buffer of painting once and changes nothing but the buffer, the buffer
\* painted is the one painted in any other state with the same effective
\* layer, and the same holds on each of the layers 0 .. 9.
C20_PaintIsPure ==
  \A r \in LedRanges :
    /\ PaintsOnce(State, r)
    /\ rgb_matrix_indicators_advanced_user(State, r[1], r[2]).led
         = rgb_matrix_indicators_advanced_user(
             OtherStateOnLayer(get_effective_layer(State)), r[1], r[2]).led
    /\ \A l \in U_BASE .. U_FUN :
         PaintsOnce([State EXCEPT !.layer_state = Pow2(l)], r)

\* While NAV is held all LEDs have been painted: white, the arrows cyan, the
\* clipboard row orange; painting again changes nothing.
C20_Witness ==
  /\ layer_state = Pow2(U_NAV)
  /\ led[0] = << 200, 200, 200 >>
  /\ led[24] = hsv_to_rgb(YXA_CYAN)
  /\ led[18] = hsv_to_rgb(YXA_ORANGE)
  /\ led[35] = hsv_to_rgb(YXA_GREEN)
  /\ rgb_matrix_indicators_advanced_user(State, 0, 36).led = led

(***************************************************************************)
(* C21  A dual-role press is resolved once, by the first rule that fires.  *)
(***************************************************************************)
\* The press reports of a log.
PressesIn(log) == SelectSeq(log, LAMBDA r : r.pressed)

\* C21: a key that stays Pending over a step emits nothing in it; a key that
\* becomes Pending has no press outstanding; the step that resolves the
\* Pending key k emits exactly one press for k, first of all reports, with
\* its tap effect when the step is the release of k and with its hold effect
\* otherwise, never both, and a key resolved as hold is Held, not Idle; a
\* Pending key is never older than the tapping term; a press within the quick
\* tap term is a tap at once, whatever the options, and a tapped key stays
\* tapped until its release.
C21_ResolvedOnce ==
  [][\A k \in ModelKeys :
       LET a == ks[k].eff
           r == ReportsOf(hid', k)
       IN  /\ (pend = k /\ pend' = k) =>
                /\ r = << >>
                /\ ks'[k] = ks[k]
           /\ (pend # k /\ pend' = k) =>
                /\ r = << >> \/ ~r[Len(r)].pressed
                /\ IsDualRole(ks'[k].eff)
           /\ (pend = k /\ pend' # k) =>
                /\ age[k] < TAPPING_TERM
                /\ TapEffect(a) # HoldEffect(a)
                /\ Len(hid') >= 1
                /\ hid'[1].key = k
                /\ Len(PressesIn(r)) = 1
                /\ r[1].pressed
                /\ r[1].eff \in {TapEffect(a), HoldEffect(a)}
                /\ (r[1].eff = TapEffect(a)) <=> (k \notin down')
                /\ k \notin down' => (r = << PressOf(k, TapEffect(a)),
                                            ReleaseOf(k, TapEffect(a)) >>
                                      /\ ks'[k].s = "Idle")
                /\ k \in down' =>
                     /\ r = << PressOf(k, HoldEffect(a)) >>
                     /\ ks'[k] = [s |-> "Held", eff |-> HoldEffect(a), quick |-> FALSE]
                     /\ \/ burst' = 0 /\ age[k] + TickMs >= TAPPING_TERM
                        \/ burst' > 0 /\ down' # down
           /\ (/\ pend = NoKey
               /\ k \notin down
               /\ k \in down'
               /\ IsDualRole(ResolveKey(State, k))
               /\ relAge[k] < QUICK_TAP_TERM) =>
                /\ r = << PressOf(k, TapEffect(ResolveKey(State, k))) >>
                /\ ks'[k].s = "Tapped"
           /\ (ks[k].s = "Tapped" /\ k \in down') =>
                /\ r = << >>
                /\ ks'[k] = ks[k]]_vars

\* With hold on other key press enabled, LSFT_T(KC_T) was tapped again within
\* the quick tap term and KC_M is pressed while it is down: quick tap fired
\* first, the key stays a tap and m is not shifted.
C21_Witness ==
  /\ cfg.hold_on_other_key_press
  /\ ~cfg.bilateral
  /\ ks[13] = [s |-> "Tapped", eff |-> KeyEff("KC_T"), quick |-> TRUE]
  /\ down = {13, 15}
  /\ hid = << PressOf(15, KeyEff("KC_M")) >>
  /\ mods = 0

(***************************************************************************)
(* C22  The overlap log is bounded; overflow forces hold.                  *)
(***************************************************************************)
\* C22: the log of the Pending key never holds more than MAX_OVERLAPS
\* entries.  When an event of another key arrives while the log is full, the
\* Pending key k is resolved as hold in that step: its hold effect is the
\* first report, the keyboard keeps running, the log is empty afterwards and
\* every logged event and the arriving event of the plain key have been
\* processed, one report each, in the order logged.
C22_OverflowForcesHold ==
  [][/\ Len(buf') <= MAX_OVERLAPS
     /\ \A k \in ModelKeys : \A b \in ModelKeys \ {k} :
          (/\ pend = k
           /\ Len(buf) = MAX_OVERLAPS
           /\ (b \in down) # (b \in down')) =>
             LET hold == HoldEffect(ks[k].eff)
                 rb == ReportsOf(hid', b)
             IN  /\ hid'[1] = PressOf(k, hold)
                 /\ ks'[k] = [s |-> "Held", eff |-> hold, quick |-> FALSE]
                 /\ boot' = "none"
                 /\ pend' = NoKey
                 /\ buf' = << >>
                 /\ Len(hid') = MAX_OVERLAPS + 2
                 /\ Len(rb) = MAX_OVERLAPS + 1
                 /\ \A i \in 1 .. MAX_OVERLAPS : rb[i].pressed = buf[i].pressed
                 /\ rb[MAX_OVERLAPS + 1].pressed = (b \in down')]_vars

\* KC_G was pressed and released eight times while LSFT_T(KC_T) was Pending;
\* its ninth press found the log full: shift is held and the seventeen
\* events of KC_G follow it.
C22_Witness ==
  /\ down = {13, 14}
  /\ Len(hid) = MAX_OVERLAPS + 2
  /\ hid[1] = PressOf(13, ModEff(MOD_LSFT))
  /\ hid[MAX_OVERLAPS + 2] = PressOf(14, KeyEff("KC_G"))
  /\ mods = MOD_LSFT
  /\ buf = << >>

(***************************************************************************)
(* C23  Buffered events are replayed once, in order, after the resolution. *)
(***************************************************************************)
\* The key and direction of each entry of a log of reports or of events.
Strokes(log) == [i \in 1 .. Len(log) |-> << log[i].key, log[i].pressed >>]

\* The key event of a step from down to down2, as a log of one event; the
\* empty log when no key changed.
StrokeOf(d, d2) ==
  IF d2 = d THEN << >>
  ELSE LET k == CHOOSE x \in (d \cup d2) \ (d \cap d2) : TRUE
       IN  << [key |-> k, pressed |-> k \in d2] >>

\* C23: while key k stays Pending, each event of another key is appended to
\* the log and nothing is removed from it.  In the step that resolves k, the
\* first report is the tap or hold effect of k, and the reports of the other
\* keys that follow it are those of the logged events, each once and in the
\* order logged, followed by that of the event of the step when it is an
\* event of another key; afterwards the log is empty.
C23_ReplayInOrder ==
  [][\A k \in ModelKeys :
       /\ (pend = k /\ pend' = k) =>
            buf' = buf \o StrokeOf(down, down')
       /\ (pend = k /\ pend' # k) =>
            LET others == SelectSeq(hid', LAMBDA r : r.key # k)
                last == SelectSeq(StrokeOf(down, down'), LAMBDA e : e.key # k)
            IN  /\ hid'[1].key = k
                /\ hid'[1].pressed
                /\ Strokes(others) = Strokes(buf \o last)
                /\ pend' = NoKey => buf' = << >>]_vars

\* KC_M was pressed while LSFT_T(KC_T) was Pending and the release of the
\* mod-tap resolved it as tap: t is pressed first, then m, then t is released.
C23_Witness ==
  /\ down = {15}
  /\ hid = << PressOf(13, KeyEff("KC_T")), PressOf(15, KeyEff("KC_M")),
              ReleaseOf(13, KeyEff("KC_T")) >>
  /\ pend = NoKey
  /\ buf = << >>

(***************************************************************************)
(* C24  The release of a layer hold clears exactly its bit.                *)
(***************************************************************************)
\* The momentary layers after the layer reports of log from index i on, in
\* order: a press sets the bit of its layer and a release clears it.
RECURSIVE LayersAfter(_, _, _)
LayersAfter(mask, log, i) ==
  IF i > Len(log) THEN mask
  ELSE LayersAfter(
         IF log[i].eff.kind # "Layer" THEN mask
         ELSE IF log[i].pressed THEN BitOr(mask, Pow2(log[i].eff.arg))
         ELSE BitAndNot(mask, Pow2(log[i].eff.arg)),
         log, i + 1)

\* C24: in every step the momentary layers change by the layer reports of
\* the step and by nothing else.  The release of a key k that holds layer l,
\* with no key Pending, is one report: bit l was set and is cleared, every
\* other momentary bit, the default layer, the modifiers and the one-shot
\* modifiers are unchanged, also while another key holds another layer.
C24_LayerReleaseExact ==
  [][/\ layer_state' = LayersAfter(layer_state, hid', 1)
     /\ \A k \in ModelKeys :
          (/\ ks[k].s = "Held"
           /\ ks[k].eff.kind = "Layer"
           /\ pend = NoKey
           /\ k \in down
           /\ k \notin down') =>
             LET l == ks[k].eff.arg
             IN  /\ hid' = << ReleaseOf(k, LayerEff(l)) >>
                 /\ BitSet(layer_state, l)
                 /\ layer_state' = layer_state - Pow2(l)
                 /\ \A j \in 0 .. MAX_LAYER - 1 :
                      j # l => (BitSet(layer_state', j) <=> BitSet(layer_state, j))
                 /\ default_layer_state' = default_layer_state
                 /\ mods' = mods
                 /\ oneshot_mods' = oneshot_mods
                 /\ ks'[k].s = "Idle"]_vars

\* firmware/keymap.c: LT(1, KC_ENT) held layer 1 and, on it, MO(3) held layer
\* 3; the layer-tap key is released first and layer 3 alone stays on.
C24_Witness ==
  /\ build = "szr"
  /\ down = {35}
  /\ hid = << ReleaseOf(34, LayerEff(1)) >>
  /\ layer_state = Pow2(3)
  /\ ks[35].s = "Held"

(***************************************************************************)
(* C25  The tapping term by kind of key.                                   *)
(***************************************************************************)
\* Key k is Pending with an empty log and the step is a clock step that
\* takes its age to at least term.
TermElapses(k, term) ==
  pend = k /\ buf = << >> /\ burst' = 0 /\ down' = down /\ age[k] + TickMs >= term

\* Key k is Pending with an empty log and the step is a clock step that
\* leaves its age below term.
TermRuns(k, term) ==
  pend = k /\ buf = << >> /\ burst' = 0 /\ down' = down /\ age[k] + TickMs < term

\* The term the configuration names for the kind of the Pending key.
TermOfKind(a) ==
  IF a.kind = "ModTap" THEN TAPPING_TERM_MOD_TAP ELSE TAPPING_TERM_LAYER

\* C25: a Pending mod-tap key is resolved as hold by the clock step that
\* takes its age to TAPPING_TERM_MOD_TAP and stays Pending before, and a
\* Pending layer-tap key likewise with TAPPING_TERM_LAYER.
C25_TermByKind ==
  [][\A k \in ModelKeys :
       /\ TermRuns(k, TermOfKind(ks[k].eff)) => pend' = k
       /\ TermElapses(k, TermOfKind(ks[k].eff)) => ks'[k].s = "Held"]_vars

\* C25, what the keymap does: every dual-role key, mod-tap or layer-tap, is
\* resolved as hold by the clock step that takes its age to TAPPING_TERM and
\* stays Pending before.
C25_OneTermForAll ==
  [][\A k \in ModelKeys :
       /\ get_tapping_term(ks[k].eff) = TAPPING_TERM
       /\ TermRuns(k, TAPPING_TERM) => pend' = k
       /\ TermElapses(k, TAPPING_TERM) =>
            /\ ks'[k].s = "Held"
            /\ hid' = << PressOf(k, HoldEffect(ks[k].eff)) >>]_vars

\* LSFT_T(KC_T) alone has been down for TAPPING_TERM: it holds shift, and
\* its release will not be a tap.
C25_Witness ==
  /\ down = {13}
  /\ ks[13] = [s |-> "Held", eff |-> ModEff(MOD_LSFT), quick |-> FALSE]
  /\ hid = << PressOf(13, ModEff(MOD_LSFT)) >>
  /\ layer_state = 0
  /\ age[13] <= TAPPING_TERM
  /\ TAPPING_TERM < TAPPING_TERM_MOD_TAP

(***************************************************************************)
(* C26  Every event placed in the batch is eventually sent.                *)
(***************************************************************************)
\* The step sends a KEY_BATCH frame.
BatchSent == FramesOf(sent', MSG_KEY_BATCH) # << >>

\* The step is a loop iteration with no key record, at whose housekeeping
\* run more than BATCH_TIMEOUT_MS has passed since an event was last added.
FlushDue == batch_count > 0 /\ batch_elapsed + LoopMs > BATCH_TIMEOUT_MS

\* C26: a record restarts the batch timer and sends the batch only when it
\* is full; the first loop iteration at which more than BATCH_TIMEOUT_MS has
\* passed since an event was last added sends every pending event in one
\* KEY_BATCH frame and leaves the batch empty, and an earlier iteration sends
\* none; so, with the main loop running, again and again the batch is empty
\* or has just been sent: no event stays pending for ever.
C26_EventuallyFlushed ==
  /\ [][/\ burst' = burst + 1 =>
             /\ batch_elapsed' = 0
             /\ BatchSent <=> batch_count = MAX_BATCH_EVENTS
             /\ BatchSent => FrameOfPending(sent'[1], batch_count)
        /\ (burst' = 0 /\ FlushDue) =>
             /\ Len(FramesOf(sent', MSG_KEY_BATCH)) = 1
             /\ FrameOfPending(FramesOf(sent', MSG_KEY_BATCH)[1], batch_count)
             /\ batch_count' = 0
        /\ (burst' = 0 /\ ~FlushDue) =>
             /\ ~BatchSent
             /\ batch_count' = batch_count
             /\ event_batch' = event_batch
             /\ batch_count > 0 => batch_elapsed' = batch_elapsed + LoopMs]_vars
  /\ []<>(batch_count = 0 \/ FramesOf(sent, MSG_KEY_BATCH) # << >>)

\* Three records arrived, the batch timed out and the loop iteration sent
\* the three events in one frame.
C26_Witness ==
  /\ burst = 0
  /\ batch_count = 0
  /\ Len(sent) = 1
  /\ sent[1][0] = MSG_KEY_BATCH
  /\ sent[1][1] = 3
(***************************************************************************)
(* C27  The batch timeout runs from the first event of the batch.          *)
(***************************************************************************)
\* C27: no event waits in the batch longer than BATCH_TIMEOUT_MS plus one
\* loop period after the oldest pending event was added: when a step is
\* over, the oldest pending event is not older than that.
C27_WaitBounded ==
  batch_count > 0 => batch_wait <= BATCH_TIMEOUT_MS + LoopMs

\* C27, what the publisher does: every added event restarts the timer, so
\* what is bounded is the time since the last event was added, which is
\* never more than the age of the oldest one.
C27_BoundedSinceLastAdd ==
  batch_count > 0 =>
    /\ batch_elapsed <= BATCH_TIMEOUT_MS
    /\ batch_elapsed <= batch_wait

\* Events are pending after a loop iteration that sent nothing, the oldest
\* one for longer than BATCH_TIMEOUT_MS plus a loop period, the newest one
\* for no longer than the timeout.
C27_Witness ==
  /\ batch_count >= 2
  /\ burst = 0
  /\ batch_wait > BATCH_TIMEOUT_MS + LoopMs
  /\ batch_elapsed <= BATCH_TIMEOUT_MS
  /\ sent = << >>
(***************************************************************************)
(* C28  Byte 4 of FULL_STATE is the pressed count.                         *)
(***************************************************************************)
\* The keys whose press record was handed to the publisher and whose release
\* record was not yet: a key that is neither Idle nor Pending.
PublishedDown == {k \in ModelKeys : ks[k].s \notin {"Idle", "Pending"}}

\* C28: byte 4 of every FULL_STATE frame is the number of keys with a
\* published press and no published release since.  A step that answers the
\* host changes no key, so the number is that of the moment the frame was
\* built.
C28_PressedCount ==
  \A i \in 1 .. Len(sent) :
    sent[i][0] = MSG_FULL_STATE => sent[i][4] = Cardinality(PublishedDown)

\* C28, what the keymap does: byte 4 of every FULL_STATE frame is 0, however
\* many keys are pressed.
C28_CountAlwaysZero ==
  \A i \in 1 .. Len(sent) : sent[i][0] = MSG_FULL_STATE => sent[i][4] = 0

\* NAV and shift are held, their presses were published, and the host is
\* answered with a FULL_STATE frame whose byte 4 is 0.
C28_Witness ==
  /\ PublishedDown = {13, 31}
  /\ down = {13, 31}
  /\ received.tag = MSG_HEARTBEAT
  /\ Len(sent) = 1
  /\ sent[1][0] = MSG_FULL_STATE
  /\ sent[1][3] = MOD_LSFT
  /\ sent[1][4] = 0
(***************************************************************************)
(* C30  On a base layer every LED shows the colour of its finger.          *)
(***************************************************************************)
\* The thumb LEDs of the two halves.
ThumbLeds == {15, 16, 17, 33, 34, 35}

\* Buffer t is buffer b with every LED of the range r below 36 in the colour
\* of its finger, and nothing else changed.
FingersOnly(b, t, r, map, colours) ==
  \A i \in Leds :
    t[i] = IF r[1] <= i /\ i < r[2] /\ i < 36 THEN hsv_to_rgb(colours[map[i]])
           ELSE b[i]

\* The keyboard on base layer l with nothing held.
OnBaseLayer(b, l) ==
  [State EXCEPT !.build = b, !.layer_state = 0, !.default_layer_state = Pow2(l)]

\* C30: whenever the effective layer is BASE, EXTRA or TAP, and on each of
\* the three whatever the LED buffer holds, a paint of any range sets each
\* LED of the range to the colour of its finger and changes nothing else;
\* the keymaps of firmware/keymap.c and bak do the same on their base layer;
\* every FINGER_MAP entry is a finger 0 .. 4 and the thumb LEDs have the
\* thumb colour.
C30_BaseLayerFingers ==
  /\ \A i \in Leds : FINGER_MAP[i] \in 0 .. 4 /\ FINGER_MAP_szr[i] \in 0 .. 4
  /\ \A i \in ThumbLeds : FINGER_MAP[i] = 4 /\ FINGER_MAP_szr[i] = 4
  /\ \A r \in LedRanges :
       /\ get_effective_layer(State) <= U_TAP =>
            \A t \in {rgb_matrix_indicators_advanced_user(State, r[1], r[2])} :
              /\ FingersOnly(led, t.led, r, FINGER_MAP, FINGER_COLORS)
              /\ [t EXCEPT !.led = led] = State
       /\ \A l \in U_BASE .. U_TAP :
            /\ FingersOnly(led,
                 rgb_matrix_indicators_advanced_user(
                   OnBaseLayer("yxa", l), r[1], r[2]).led,
                 r, FINGER_MAP, FINGER_COLORS)
            /\ FingersOnly(led,
                 rgb_matrix_indicators_advanced_user_szr(
                   OnBaseLayer("szr", l), r[1], r[2]).led,
                 r, FINGER_MAP_szr, FINGER_COLORS_szr)

\* The NAV key has just been released and a paint of all LEDs on the base
\* layer has set the finger colours: index yellow, pinky cyan, the thumbs
\* blue.
C30_Witness ==
  /\ layer_state = 0
  /\ down = {}
  /\ relAge[31] < QUICK_TAP_TERM
  /\ led[0] = << 177, 180, 0 >>
  /\ led[4] = hsv_to_rgb(FINGER_COLORS[0])
  /\ \A i \in ThumbLeds : led[i] = << 0, 0, 180 >>
  /\ \A i \in Leds : led[i] = hsv_to_rgb(FINGER_COLORS[FINGER_MAP[i]])
(***************************************************************************)
(* C31  On a layer that is not a base layer every LED is painted.          *)
(***************************************************************************)
\* A buffer of a colour no palette holds.
Unpainted == [i \in Leds |-> << 1, 2, 3 >>]

\* The statements of the case of layer l that write LED i, by position.
WritersOf(l, i) ==
  {j \in 1 .. Len(LayerHighlights(l)) :
     LayerHighlights(l)[j][1] <= i /\ i <= LayerHighlights(l)[j][2]}

\* What LED i shows on layer l of the yxa keymap: the accent colour assigned
\* last to it, or the base colour.
AccentOrBase(l, i) ==
  IF WritersOf(l, i) = {} THEN hsv_to_rgb(YXA_WHITE)
  ELSE hsv_to_rgb(
         LayerHighlights(l)[CHOOSE j \in WritersOf(l, i) :
                              \A m \in WritersOf(l, i) : m <= j][3])

\* The layers some key of the keymap of build b turns on while held.
LayerKeysOf(b) ==
  UNION {{KeymapOf(b)[l][p].arg :
            p \in {q \in 1 .. Len(KeymapOf(b)[l]) :
                     KeymapOf(b)[l][q].kind
                       \in {"LayerTap", "LayerMomentary"}}} :
           l \in 1 .. NumLayers(b)}

\* AccentOrBase of every layer above the base layers and every LED.
AccentTable ==
  [l \in U_BUTTON .. U_FUN |-> [i \in Leds |-> AccentOrBase(l, i)]]

\* The keyboard of build b with layer l held and LED buffer buffer.
OnLayer(b, l, buffer) ==
  [State EXCEPT !.build = b, !.layer_state = Pow2(l), !.led = buffer]

\* C31: on every layer above the base layers, whatever the LED buffer holds,
\* a paint of all LEDs leaves each LED with the accent colour assigned last
\* to it or, without one, with the base colour of the layer: white in the
\* yxa keymap, LAYER_COLORS[layer] in the keymaps of firmware/keymap.c and
\* bak, which have no accents.  The layers of those two keymaps are the ones
\* a layer key of the keymap turns on.
C31_NonBaseFullPaint ==
  /\ get_effective_layer(State) > U_TAP =>
       rgb_matrix_indicators_advanced_user(State, 0, 36).led
         = AccentTable[get_effective_layer(State)]
  /\ \A buffer \in {led, Unpainted} :
       /\ \A l \in U_BUTTON .. NumLayers("yxa") - 1 :
            rgb_matrix_indicators_advanced_user(
              OnLayer("yxa", l, buffer), 0, 36).led
              = AccentTable[l]
       /\ \A b \in {"szr", "bak"} : \A l \in LayerKeysOf(b) \ {0} :
            rgb_matrix_indicators_advanced_user_szr(
              OnLayer(b, l, buffer), 0, 36).led
              = [i \in Leds |-> hsv_to_rgb(LAYER_COLORS[l])]

\* NUM is held and all LEDs have been painted: the left half and its thumbs
\* yellow, the right home row and every other LED white.
C31_Witness ==
  /\ layer_state = Pow2(U_NUM)
  /\ \A i \in 0 .. 17 : led[i] = << 197, 200, 0 >>
  /\ \A i \in 18 .. 35 : led[i] = << 200, 200, 200 >>
  /\ led = AccentTable[U_NUM]

(***************************************************************************)
(* C32  The key events reach the frames in the order of the key records.   *)
(***************************************************************************)
\* The events pending in a batch of n events, oldest first.
PendingEvents(batch, n) ==
  [i \in 1 .. n |->
     [type |-> batch[(i - 1) * 3], row |-> batch[(i - 1) * 3 + 1],
      col |-> batch[(i - 1) * 3 + 2]]]

\* The event of a key record of key k.
RecordEvent(k, pressed) ==
  [type |-> IF pressed THEN MSG_KEY_PRESS ELSE MSG_KEY_RELEASE,
   row |-> KeyRow(k), col |-> KeyCol(k)]

\* C32: with an endpoint that takes every frame, each step keeps the stream
\* of key events: the events of the KEY_BATCH frames the step sends, in the
\* order sent, followed by the events pending after it, are the events that
\* were pending before it followed by the record handed to
\* process_record_user in the step, if any.  By induction the frames sent so
\* far followed by the pending events are the records handed so far, each
\* once and in order.
C32_StreamPreserved ==
  [][/\ \A i \in 1 .. Len(ok') : ok'[i]
     /\ \A k \in RecordKeys : \A pressed \in BOOLEAN :
          Record(k, pressed) =>
            Published(sent') \o PendingEvents(event_batch', batch_count')
              = PendingEvents(event_batch, batch_count)
                  \o << RecordEvent(k, pressed) >>
     /\ Loop =>
          Published(sent') \o PendingEvents(event_batch', batch_count')
            = PendingEvents(event_batch, batch_count)]_vars

\* A record has just arrived at a full batch: the eight pending events were
\* sent in one frame, a press first and a release among them, and the record
\* is the only pending event.
C32_Witness ==
  /\ Len(Published(sent)) = MAX_BATCH_EVENTS
  /\ Published(sent)[1].type = MSG_KEY_PRESS
  /\ \E i \in 2 .. MAX_BATCH_EVENTS : Published(sent)[i].type = MSG_KEY_RELEASE
  /\ batch_count = 1
  /\ \A i \in 1 .. Len(ok) : ok[i]

(***************************************************************************)
(* C33  A key's press is sent no later than the state frame of its change. *)
(***************************************************************************)
\* Dual-role key k is resolved as hold in the step: its press record is
\* handed to the publisher and its modifier or layer is switched on.
BecomesHeld(k) ==
  /\ ks[k].s = "Pending"
  /\ ks'[k].s = "Held"
  /\ ks'[k].eff.kind \in {"Mod", "Layer"}

\* The tag of the frame that reports the change of effect e.
ReportTag(e) == IF e.kind = "Mod" THEN MSG_MODIFIER_STATE ELSE MSG_LAYER_STATE

\* Whether event e is among the n pending events of batch.
IsPending(e, batch, n) ==
  \E i \in 1 .. n : PendingEvents(batch, n)[i] = e

\* C33: in a step that resolves a dual-role key as hold and sends the
\* MODIFIER_STATE or LAYER_STATE frame of the change, the press of the key
\* has been sent too: it is not pending in the batch when the step is over.
C33_KeyBeforeState ==
  [][\A k \in ModelKeys :
       (BecomesHeld(k) /\ FramesOf(sent', ReportTag(ks'[k].eff)) # << >>) =>
         ~IsPending(RecordEvent(k, TRUE), event_batch', batch_count')]_vars

\* C33, what the publisher does: the state frame overtakes the key.  In a
\* step that resolves a dual-role key as hold the frame of the changed
\* modifiers or layer is sent and the batch is not sent on timeout: a
\* KEY_BATCH frame is sent only for a batch that was full, and without one
\* the press of the key is pending in the batch when the step is over.
C33_StateOvertakesKey ==
  [][\A k \in ModelKeys :
       BecomesHeld(k) =>
         /\ FramesOf(sent', ReportTag(ks'[k].eff)) # << >>
         /\ \A i \in 1 .. Len(sent') :
              sent'[i][0] = MSG_KEY_BATCH => sent'[i][1] = MAX_BATCH_EVENTS
         /\ FramesOf(sent', MSG_KEY_BATCH) = << >> =>
              IsPending(RecordEvent(k, TRUE), event_batch', batch_count')]_vars

\* The NAV thumb key has just been resolved as hold: LAYER_STATE with layer
\* NAV is the only frame sent and the press of the key is pending.
C33_Witness ==
  /\ ks[31].s = "Held"
  /\ Len(sent) = 1
  /\ sent[1][0] = MSG_LAYER_STATE
  /\ sent[1][1] = U_NAV
  /\ IsPending(RecordEvent(31, TRUE), event_batch, batch_count)

(***************************************************************************)
(* C34  process_record_user never interferes with typing.                  *)
(***************************************************************************)
\* State p with the pending batch, its timer and the frames handed to the
\* endpoint taken from state q.
WithBatchOf(p, q) ==
  [p EXCEPT !.event_batch = q.event_batch, !.batch_count = q.batch_count,
            !.batch_elapsed = q.batch_elapsed, !.sent = q.sent, !.ok = q.ok]

\* C34: in every reachable state, for a press or release record of any key
\* of the matrix, process_record_user returns true, so the record goes on to
\* normal processing, and changes nothing but the pending batch and its
\* timer; it hands one frame to the endpoint, the full batch, when
\* MAX_BATCH_EVENTS events are pending, and none otherwise.
C34_RecordOnlyBatches ==
  \A k \in Positions : \A pressed \in BOOLEAN :
    \A after \in {process_record_user(State, pressed, KeyRow(k), KeyCol(k))} :
      /\ process_record_user_result(pressed, KeyRow(k), KeyCol(k))
      /\ Continue(State, k, pressed, after) = after
      /\ WithBatchOf(after, State) = State
      /\ after.batch_elapsed = 0
      /\ IF batch_count = MAX_BATCH_EVENTS
         THEN /\ Len(after.sent) = 1
              /\ FrameOfPending(after.sent[1], MAX_BATCH_EVENTS)
              /\ after.batch_count = 1
         ELSE /\ after.sent = << >>
              /\ after.batch_count = batch_count + 1

\* Eight records have been handed in since the clock last advanced: the
\* batch is full, nothing was sent for the last of them, and no key, layer
\* or modifier has changed.
C34_Witness ==
  /\ burst = MAX_BATCH_EVENTS
  /\ batch_count = MAX_BATCH_EVENTS
  /\ sent = << >>
  /\ down = {}
  /\ layer_state = 0
  /\ mods = 0
  /\ hid = << >>

(***************************************************************************)
(* C35  The indicator writes only the LEDs of the range it is called for.  *)
(***************************************************************************)
\* LED i is one of the LEDs a call for range r may write.
InRange(r, i) == r[1] <= i /\ i < r[2] /\ i < 36

\* The LEDs the statements of the case of each layer name.
NamedLeds ==
  [l \in U_BUTTON .. U_FUN |-> {i \in Leds : WritersOf(l, i) # {}}]

\* LEDs i outside range r are the same in buffers before and after.
OutsideKept(r, before, after) ==
  \A i \in Leds : ~InRange(r, i) => after[i] = before[i]

\* C35: in every state of the yxa keymap, whatever the effective layer, and
\* on every layer of the other two keymaps with whatever the LED buffer
\* holds, a call of the indicator for an LED range leaves every LED outside
\* the range as it was.
C35_WritesInRangeOnly ==
  \A r \in LedRanges :
    /\ OutsideKept(r, led,
         rgb_matrix_indicators_advanced_user(State, r[1], r[2]).led)
    /\ \A buffer \in {led, Unpainted} :
       \A b \in {"szr", "bak"} : \A l \in 0 .. NumLayers(b) - 1 :
         OutsideKept(r, buffer,
           rgb_matrix_indicators_advanced_user_szr(
             OnLayer(b, l, buffer), r[1], r[2]).led)

\* C35, what the indicators do: on the base layers of the yxa keymap and on
\* every layer of the other two keymaps the LEDs outside the range are left
\* as they were; on the layers 3 .. 9 of the yxa keymap every LED that a
\* statement of the layer's case names gets its accent colour, in the range
\* or not, and the other LEDs outside the range are left as they were.
C35_SwitchIgnoresRange ==
  \A r \in LedRanges : \A buffer \in {led, Unpainted} :
    /\ \A l \in U_BASE .. U_FUN :
         \A after \in {rgb_matrix_indicators_advanced_user(
                         OnLayer("yxa", l, buffer), r[1], r[2]).led} :
           \A i \in Leds :
             ~InRange(r, i) =>
               after[i] = IF l > U_TAP /\ i \in NamedLeds[l]
                          THEN AccentTable[l][i]
                          ELSE buffer[i]
    /\ \A b \in {"szr", "bak"} : \A l \in 0 .. NumLayers(b) - 1 :
         OutsideKept(r, buffer,
           rgb_matrix_indicators_advanced_user_szr(
             OnLayer(b, l, buffer), r[1], r[2]).led)

\* All LEDs were painted on the base layer, then NUM was held and the
\* indicator was called for the left half, LEDs 0 .. 17: the left half is
\* yellow, LED 18 of the right half keeps its finger colour, and LED 23 of
\* the right half, outside the range, has been painted white.
C35_Witness ==
  /\ layer_state = Pow2(U_NUM)
  /\ led[0] = << 197, 200, 0 >>
  /\ led[18] = hsv_to_rgb(FINGER_COLORS[FINGER_MAP[18]])
  /\ led[18] # << 200, 200, 200 >>
  /\ led[23] = << 200, 200, 200 >>
  /\ led[23] # hsv_to_rgb(FINGER_COLORS[FINGER_MAP[23]])
=============================================================================
